---- MODULE Spec2Model ----
(***************************************************************************)
(* A model of tools/buildsys/src/builder.rs: the docker() retry loop, the  *)
(* Docker version gate, the DockerBuild::build() sequence, and the two     *)
(* functions that move build outputs and remove them, copy_build_files and *)
(* clean_build_files, on a model of the file system.                       *)
(*                                                                         *)
(* Text is modelled with TLA+ strings (Len, SubSeq and \o work on them),   *)
(* so regular expressions, argument joining and version parsing are        *)
(* computed on the actual characters.                                      *)
(***************************************************************************)
EXTENDS Integers, Sequences, FiniteSets, TLC

VARIABLES
    invocation,   \* number of the build() invocation in progress
    kind,         \* BuildType of the DockerBuild in this invocation
    nocache,      \* common_build_args.nocache of this DockerBuild
    secrets,      \* what secrets_args() finds in the environment of this invocation
    pc,           \* position of build() in its body, "construct_failed" without a build
    result,       \* what build(), or the constructor when it failed, returned
    trace,        \* the operations build() has issued in this invocation, in order
    buildResult,  \* `build_result` (line 670)
    versionOut,   \* stdout of the `docker version` probe
    runtime,      \* the tokio runtime: "none", "up", "down"
    pipesys,      \* the task serving the output directory descriptor
    bypass,       \* the task running the bypass container
    dkPc,         \* position of docker(): "idle", "loop", "done"
    dkArgs,       \* `args` of the docker() call in progress
    dkMax,        \* `max_attempts`
    dkMsgs,       \* `retry_messages`
    attempt,      \* `attempt`
    runs,         \* how many times this docker() call executed the process
    dkStarted,    \* whether the last execution could start the process
    dkStatus,     \* exit status of the last execution, None before it
    dkStdout,     \* `stdout` of the last execution
    printed,      \* what the last println! of this call wrote
    dkResult,     \* what docker() returned
    focus,        \* the part of the environment this behaviour lets vary
    fs,           \* the file system below the project root
    fs0,          \* the file system when this invocation of build() began
    produced,     \* the files the main build of this invocation wrote
    opPc,         \* position of copy_build_files / clean_build_files
    opFn,         \* which of the two is running: "copy", "clean", "none"
    opArgs,       \* its `build_dir` and output directories
    opTodo,       \* what the walk of find_files has yet to yield
    opFile,       \* the file the loop is at, None between two files
    opStep,       \* how far the loop body is for that file
    clean_dirs,   \* `clean_dirs`, the HashSet
    clean_queue,  \* `clean_dirs`, the sorted Vec that is left to visit
    opResult,     \* what the function returned
    opLog,        \* the changes this call made to the file system
    rmdirs,       \* the directories this call removed, in order
    opFs0,        \* the file system when this call began
    last          \* the call that returned last, if nothing changed since

vars == <<invocation, kind, nocache, secrets, pc, result, trace, buildResult, versionOut,
          runtime, pipesys, bypass, dkPc, dkArgs, dkMax, dkMsgs, attempt,
          runs, dkStarted, dkStatus, dkStdout, printed, dkResult,
          focus, fs, fs0, produced, opPc, opFn, opArgs, opTodo, opFile, opStep,
          clean_dirs, clean_queue, opResult, opLog, rmdirs, opFs0, last>>

buildVars == <<invocation, kind, nocache, secrets, pc, result, trace, buildResult, versionOut>>
auxVars == <<runtime, pipesys, bypass>>
dockerVars == <<dkPc, dkArgs, dkMax, dkMsgs, attempt, runs, dkStarted, dkStatus, dkStdout,
                printed, dkResult>>
filesVars == <<focus, fs, fs0, produced>>
opVars == <<opPc, opFn, opArgs, opTodo, opFile, opStep, clean_dirs, clean_queue, opResult,
            opLog, rmdirs, opFs0, last>>

\* How many build() invocations a behaviour holds.
MaxInvocations == 2

NoResult == [kind |-> "none"]
Ok == [kind |-> "Ok"]

-----------------------------------------------------------------------------
(* Text *)

NL == "\n"

CharAt(t, i) == SubSeq(t, i, i)

RECURSIVE Join(_, _)
\* args.join(sep) on a slice of strings
Join(strs, sep) ==
    IF strs = <<>> THEN ""
    ELSE IF Len(strs) = 1 THEN strs[1]
    ELSE strs[1] \o sep \o Join(Tail(strs), sep)

\* A compiled Regex, as far as the patterns of this file go: literal pieces
\* with one dot (any character but a line feed) between two pieces, and an
\* optional trailing end-of-line anchor under the multi-line flag.
RECURSIVE PieceOffset(_, _)
PieceOffset(pieces, k) ==
    IF k = 1 THEN 0 ELSE PieceOffset(pieces, k - 1) + Len(pieces[k - 1]) + 1

RegexLen(re) ==
    PieceOffset(re.pieces, Len(re.pieces)) + Len(re.pieces[Len(re.pieces)])

MatchAt(re, t, i) ==
    /\ i + RegexLen(re) - 1 <= Len(t)
    /\ \A k \in 1..Len(re.pieces) :
         LET from == i + PieceOffset(re.pieces, k)
             to == from + Len(re.pieces[k]) - 1
         IN  /\ SubSeq(t, from, to) = re.pieces[k]
             /\ k < Len(re.pieces) => CharAt(t, to + 1) # NL
    /\ re.eol =>
         LET end == i + RegexLen(re)
         IN  end = Len(t) + 1 \/ CharAt(t, end) = NL

\* The leftmost search of the regex engine: a match starting anywhere.
Search(re, t) == \E i \in 1..Len(t) : MatchAt(re, t, i)

DOCKER_BUILD_FRONTEND_ERROR ==
    [pieces |-> << "failed to solve with frontend dockerfile",
                   "v0: failed to solve with frontend gateway",
                   "v0: frontend grpc server closed unexpectedly" >>,
     eol |-> FALSE]

\* The dead-record pattern cut down to the last part of the message.
DeadRecordLastPartOnly ==
    [pieces |-> << "failed to get dead record" >>, eol |-> FALSE]

DOCKER_BUILD_DEAD_RECORD_ERROR ==
    [pieces |-> << "failed to solve with frontend dockerfile",
                   "v0: failed to solve with frontend gateway",
                   "v0: rpc error: code = Unknown desc = failed to build LLB: failed to get dead record" >>,
     eol |-> FALSE]

UNEXPECTED_EOF_ERROR ==
    [pieces |-> << "unexpected EOF" >>, eol |-> TRUE]

CREATEREPO_C_READ_HEADER_ERROR ==
    [pieces |-> << "C_CREATEREPOLIB: Warning: read_header: rpmReadPackageFile() error" >>,
     eol |-> FALSE]

DOCKER_BUILD_MAX_ATTEMPTS == 10

\* enum Retry
RetryNo == [retry |-> "No"]
RetryYes(attempts, messages) ==
    [retry |-> "Yes", attempts |-> attempts, messages |-> messages]

\* The Retry::Yes of the main build of lines 672-680.
BuildRetry ==
    RetryYes(DOCKER_BUILD_MAX_ATTEMPTS,
             << DOCKER_BUILD_FRONTEND_ERROR, DOCKER_BUILD_DEAD_RECORD_ERROR,
                UNEXPECTED_EOF_ERROR, CREATEREPO_C_READ_HEADER_ERROR >>)

-----------------------------------------------------------------------------
(* What the docker process may write (stderr merged into stdout). *)

OutDeadRecordLine == "...\nerror: failed to get dead record\nmore text\n"
OutDeadRecord ==
    "#8 ERROR\nfailed to solve with frontend dockerfile.v0: failed to solve with frontend gateway.v0: rpc error: code = Unknown desc = failed to build LLB: failed to get dead record\nmore text\n"
OutFrontend ==
    "failed to solve with frontend dockerfile.v0: failed to solve with frontend gateway.v0: frontend grpc server closed unexpectedly"
OutEof == "#5 transferring\nunexpected EOF\n#6 CANCELED\n"
OutEofInLine == "tar: unexpected EOF in archive\n"
OutCreaterepo ==
    "C_CREATEREPOLIB: Warning: read_header: rpmReadPackageFile() error (foo.rpm)\n"
OutCompile == "error: could not compile foo\n"
OutBuilt == "#12 DONE 0.1s\n"

OutRemoved == "Untagged: buildsys\n"
OutNoSuch == "Error response from daemon: No such container\n"

BuildOutputs ==
    { OutDeadRecordLine, OutDeadRecord, OutFrontend, OutEof, OutEofInLine,
      OutCreaterepo, OutCompile, OutBuilt }

\* The patterns compiled by the lazy_static blocks, and the texts they are
\* matched against; the searches are computed once, as the patterns are
\* compiled once.
Patterns ==
    { DOCKER_BUILD_FRONTEND_ERROR, DOCKER_BUILD_DEAD_RECORD_ERROR,
      UNEXPECTED_EOF_ERROR, CREATEREPO_C_READ_HEADER_ERROR }

Texts == BuildOutputs \cup {OutRemoved, OutNoSuch}

Searches == [re \in Patterns, t \in Texts |-> Search(re, t)]

\* Regex::is_match: the pattern is searched anywhere in the text.
is_match(re, t) == Searches[re, t]

\* What one execution of cmd("docker", args) can come to: the process could
\* not be started, or it ran and left an exit status and its output.
Outcomes(args) ==
    { [started |-> FALSE] } \cup
    [started : {TRUE}, status : {0, 1},
     stdout : IF args[1] = "build" THEN BuildOutputs ELSE {OutRemoved, OutNoSuch}]

-----------------------------------------------------------------------------
(* semver::Version and VersionReq *)

Digits == "0123456789"
IsDigit(c) == \E i \in 1..Len(Digits) : CharAt(Digits, i) = c
DigitValue(c) == (CHOOSE i \in 1..Len(Digits) : CharAt(Digits, i) = c) - 1

IsSpace(c) == c \in {" ", NL, "\t", "\r"}

RECURSIVE TrimStart(_)
TrimStart(t) ==
    IF Len(t) > 0 /\ IsSpace(CharAt(t, 1)) THEN TrimStart(SubSeq(t, 2, Len(t))) ELSE t

RECURSIVE TrimEnd(_)
TrimEnd(t) ==
    IF Len(t) > 0 /\ IsSpace(CharAt(t, Len(t))) THEN TrimEnd(SubSeq(t, 1, Len(t) - 1)) ELSE t

\* str::trim
Trim(t) == TrimEnd(TrimStart(t))

\* Index of the first c in t, 0 when there is none.
IndexOf(t, c) ==
    IF \E i \in 1..Len(t) : CharAt(t, i) = c
    THEN CHOOSE i \in 1..Len(t) :
             CharAt(t, i) = c /\ \A j \in 1..(i - 1) : CharAt(t, j) # c
    ELSE 0

\* A numeric identifier: digits, no leading zero.
IsNumeric(t) ==
    /\ Len(t) > 0
    /\ \A i \in 1..Len(t) : IsDigit(CharAt(t, i))
    /\ Len(t) > 1 => CharAt(t, 1) # "0"

RECURSIVE NumericValue(_)
NumericValue(t) ==
    IF Len(t) = 0 THEN 0
    ELSE 10 * NumericValue(SubSeq(t, 1, Len(t) - 1)) + DigitValue(CharAt(t, Len(t)))

NoVersion == [ok |-> FALSE]

\* Version::parse on MAJOR.MINOR.PATCH with an optional -PRERELEASE.
VersionParse(t) ==
    LET dash == IndexOf(t, "-")
        core == IF dash = 0 THEN t ELSE SubSeq(t, 1, dash - 1)
        pre == IF dash = 0 THEN "" ELSE SubSeq(t, dash + 1, Len(t))
        d1 == IndexOf(core, ".")
        rest == SubSeq(core, d1 + 1, Len(core))
        d2 == IndexOf(rest, ".")
        major == SubSeq(core, 1, d1 - 1)
        minor == SubSeq(rest, 1, d2 - 1)
        patch == SubSeq(rest, d2 + 1, Len(rest))
    IN  IF /\ d1 > 0
           /\ d2 > 0
           /\ IsNumeric(major) /\ IsNumeric(minor) /\ IsNumeric(patch)
           /\ dash > 0 => (Len(pre) > 0 /\ \A i \in 1..Len(pre) : ~IsSpace(CharAt(pre, i)))
        THEN [ok |-> TRUE, major |-> NumericValue(major), minor |-> NumericValue(minor),
              patch |-> NumericValue(patch), pre |-> pre]
        ELSE NoVersion

\* Option<u64>
None == {}
Some(x) == {x}

MINIMUM_DOCKER_VERSION ==
    << [op |-> "GreaterEq", major |-> 23, minor |-> None, patch |-> None, pre |-> ""] >>

matches_exact(cmp, ver) ==
    /\ ver.major = cmp.major
    /\ cmp.minor # None => Some(ver.minor) = cmp.minor
    /\ cmp.patch # None => Some(ver.patch) = cmp.patch
    /\ ver.pre = cmp.pre

\* Only comparators with an empty prerelease occur, so the last step of the
\* comparison (ver.pre > cmp.pre) is: ver has no prerelease and cmp has one.
matches_greater(cmp, ver) ==
    IF ver.major # cmp.major THEN ver.major > cmp.major
    ELSE IF cmp.minor = None THEN FALSE
    ELSE IF Some(ver.minor) # cmp.minor THEN \A minor \in cmp.minor : ver.minor > minor
    ELSE IF cmp.patch = None THEN FALSE
    ELSE IF Some(ver.patch) # cmp.patch THEN \A patch \in cmp.patch : ver.patch > patch
    ELSE ver.pre = "" /\ cmp.pre # ""

matches_impl(cmp, ver) ==
    CASE cmp.op = "GreaterEq" -> matches_exact(cmp, ver) \/ matches_greater(cmp, ver)
      [] cmp.op = "Greater" -> matches_greater(cmp, ver)
      [] cmp.op = "Exact" -> matches_exact(cmp, ver)

pre_is_compatible(cmp, ver) ==
    /\ cmp.major = ver.major
    /\ cmp.minor = Some(ver.minor)
    /\ cmp.patch = Some(ver.patch)
    /\ cmp.pre # ""

\* VersionReq::matches: every comparator holds, and a version with a
\* prerelease tag needs a comparator of the same major.minor.patch that has a
\* prerelease tag too.
matches(req, ver) ==
    /\ \A k \in 1..Len(req) : matches_impl(req[k], ver)
    /\ ver.pre # "" => \E k \in 1..Len(req) : pre_is_compatible(req[k], ver)

\* What the version probe may print.
VersionOutputs ==
    { "22.9.9\n", "20.10.27\n", "18.0.9\n", "23.0.0\n", "25.0.5\n", "27.1.4\n",
      "23.0.0-rc.1\n", "24.0.0-rc.1\n", "23.1\n", "023.0.0\n", "",
      "Cannot connect to the Docker daemon at unix:///var/run/docker.sock.\n" }

NotStarted == "<not started>"

\* docker_server_version on what the probe came to.
docker_server_version(probe) ==
    IF probe = NotStarted THEN [kind |-> "CommandStart"]
    ELSE LET version_str == Trim(probe)
             v == VersionParse(version_str)
         IN  IF v.ok THEN [kind |-> "Ok", version |-> v]
             ELSE [kind |-> "VersionParse", version_str |-> version_str]

\* A version below the requirement let through.
check_docker_version_unenforced(probe) ==
    LET docker_version == docker_server_version(probe)
    IN  IF docker_version.kind # "Ok" THEN docker_version ELSE Ok

check_docker_version(probe) ==
    LET docker_version == docker_server_version(probe)
    IN  IF docker_version.kind # "Ok" THEN docker_version
        ELSE IF ~matches(MINIMUM_DOCKER_VERSION, docker_version.version)
        THEN [kind |-> "DockerVersionRequirement",
              installed_version |-> docker_version.version]
        ELSE Ok

-----------------------------------------------------------------------------
(* DockerBuild: the four constructors' fields that build() reads. *)

Kinds == {"Package", "Kit", "Variant", "Repack"}

RootDir == "/home/user/project"
ToolsDir == "/home/user/project/build/tools"
Arch == "x86_64"
Sdk == "public.ecr.aws/bottlerocket/sdk:v0.50.0"

\* rand::thread_rng().gen::<u128>().to_string()
Nocaches == {"17", "340282366920938463463374607431768211455"}

\* token(): the first 12 hex digits of the SHA-512 of the path; the digest is
\* not computed here, the table holds it for the project roots of the model.
token(p) ==
    CASE p = "/home/user/project" -> "9b71d224bd62"
      [] p = "/srv/checkout" -> "c6ee9e33cf5c"

append_token(tag, p) == tag \o "-" \o token(p)

artifact_name(k) ==
    CASE k = "Package" -> "foo"
      [] k = "Kit" -> "core-kit"
      [] k = "Variant" -> "aws-dev"
      [] k = "Repack" -> "aws-dev"

target(k) ==
    CASE k = "Package" -> "package"
      [] k = "Kit" -> "kit"
      [] k = "Variant" -> "variant"
      [] k = "Repack" -> "repack"

tag(k) ==
    CASE k = "Package" -> append_token("buildsys-pkg-" \o artifact_name(k) \o "-" \o Arch, RootDir)
      [] k = "Kit" -> append_token("buildsys-kit-" \o artifact_name(k) \o "-" \o Arch, RootDir)
      [] k = "Variant" -> append_token("buildsys-var-" \o artifact_name(k) \o "-" \o Arch, RootDir)
      [] k = "Repack" -> append_token("buildsys-repack-" \o artifact_name(k) \o "-" \o Arch, RootDir)

\* OutputCleanup::BeforeBuild for every constructor.
cleanup_always(k) == "BeforeBuild"

\* common_build_args.cleanup
cleanup(k) == IF k = "Repack" THEN "None" ELSE "BeforeBuild"

\* The socket address without the random value.
output_socket_of_token(nc) == "buildsys-output-" \o token(RootDir)

output_socket(nc) == "buildsys-output-" \o token(RootDir) \o "-" \o nc

\* secrets_args() without the test of ca_bundle_path.exists().
secrets_result_unchecked_bundle(env) ==
    IF env.sbkeys = "unset"
    THEN [kind |-> "Environment", var |-> "BUILDSYS_SBKEYS_PROFILE_DIR"]
    ELSE IF env.sbkeys = "unreadable" THEN [kind |-> "DirectoryRead"]
    ELSE IF env.ca_bundle = "unset"
    THEN [kind |-> "Environment", var |-> "BUILDSYS_CACERTS_BUNDLE_OVERRIDE"]
    ELSE IF env.root_json = "unset"
    THEN [kind |-> "Environment", var |-> "PUBLISH_REPO_ROOT_JSON"]
    ELSE IF env.root_json = "missing" THEN [kind |-> "BadRootJson"]
    ELSE [kind |-> "Ok"]

\* Whether secrets_args() returns Ok or one of its errors. env tells, for the
\* profile directory, whether its variable is unset, its directory cannot be
\* read or is empty; and for each of the two overrides, whether the variable
\* is unset, empty ("") or names a path that does not exist.
secrets_result(env) ==
    IF env.sbkeys = "unset"
    THEN [kind |-> "Environment", var |-> "BUILDSYS_SBKEYS_PROFILE_DIR"]
    ELSE IF env.sbkeys = "unreadable" THEN [kind |-> "DirectoryRead"]
    ELSE IF env.ca_bundle = "unset"
    THEN [kind |-> "Environment", var |-> "BUILDSYS_CACERTS_BUNDLE_OVERRIDE"]
    ELSE IF env.ca_bundle = "missing" THEN [kind |-> "BadCaBundle"]
    ELSE IF env.root_json = "unset"
    THEN [kind |-> "Environment", var |-> "PUBLISH_REPO_ROOT_JSON"]
    ELSE IF env.root_json = "missing" THEN [kind |-> "BadRootJson"]
    ELSE [kind |-> "Ok"]

\* The environments of the model. Under the "files" focus one of the three
\* values may be wrong; everywhere else the profile directory is empty and
\* both overrides are the empty string, as secrets_args(k) below has it.
SecretsEnvs(fc) ==
    LET good == [sbkeys |-> "empty", ca_bundle |-> "", root_json |-> ""]
    IN  IF fc = "files"
        THEN {good}
             \cup { [good EXCEPT !.sbkeys = v] : v \in {"unset", "unreadable"} }
             \cup { [good EXCEPT !.ca_bundle = v] : v \in {"unset", "missing"} }
             \cup { [good EXCEPT !.root_json = v] : v \in {"unset", "missing"} }
        ELSE {good}

\* secrets_args() for the variant and repack constructors, with an empty
\* profile directory and empty CA bundle and root.json overrides.
secrets_args(k) ==
    IF k \in {"Variant", "Repack"}
    THEN << "--secret", "type=env,id=aws-access-key-id.env,src=AWS_ACCESS_KEY_ID",
            "--secret", "type=env,id=aws-secret-access-key.env,src=AWS_SECRET_ACCESS_KEY",
            "--secret", "type=env,id=aws-session-token.env,src=AWS_SESSION_TOKEN" >>
    ELSE << >>

\* BuildArg::build_arg
build_arg(key, value) == << "--build-arg", key \o "=" \o value >>

RECURSIVE split_string(_)
\* SplitString::split_string: str::split on a single space.
split_string(t) ==
    LET i == IndexOf(t, " ")
    IN  IF i = 0 THEN << t >>
        ELSE << SubSeq(t, 1, i - 1) >> \o split_string(SubSeq(t, i + 1, Len(t)))

PackageBuildArgs ==
    build_arg("KIT_DEPENDENCIES", Join(<< "core-kit" >>, " "))
    \o build_arg("EXTERNAL_KIT_DEPENDENCIES", Join(<< >>, " "))
    \o build_arg("PACKAGE", "foo")
    \o build_arg("PACKAGE_DEPENDENCIES", Join(<< "glibc", "libz" >>, " "))
    \o build_arg("BUILD_ID", "abc1234")
    \o build_arg("BUILD_ID_TIMESTAMP", "1700000000")

KitBuildArgs ==
    build_arg("KIT", "core-kit")
    \o build_arg("PACKAGE_DEPENDENCIES", Join(<< "foo", "glibc" >>, " "))
    \o build_arg("BUILD_ID", "abc1234")
    \o build_arg("VERSION_ID", "1.0.0")
    \o build_arg("EXTERNAL_KIT_METADATA", "build/external-kits/external-kit-metadata.json")
    \o build_arg("VENDOR", "bottlerocket")
    \o build_arg("LOCAL_KIT_DEPENDENCIES", Join(<< >>, " "))

VariantBuildArgs ==
    build_arg("DATA_IMAGE_PUBLISH_SIZE_GIB", "20")
    \o build_arg("BUILD_ID", "abc1234")
    \o build_arg("DATA_IMAGE_SIZE_GIB", "1")
    \o build_arg("IMAGE_FORMAT", "raw")
    \o build_arg("IMAGE_NAME", "bottlerocket")
    \o build_arg("KERNEL_PARAMETERS", Join(<< "console=tty0", "quiet" >>, " "))
    \o build_arg("KIT_DEPENDENCIES", Join(<< "core-kit" >>, " "))
    \o build_arg("EXTERNAL_KIT_DEPENDENCIES", Join(<< >>, " "))
    \o build_arg("OS_IMAGE_PUBLISH_SIZE_GIB", "2")
    \o build_arg("OS_IMAGE_SIZE_GIB", "2")
    \o build_arg("PACKAGES", Join(<< "release", "kernel-6.1" >>, " "))
    \o build_arg("PACKAGE_DEPENDENCIES", Join(<< "release" >>, " "))
    \o build_arg("PARTITION_PLAN", "split")
    \o build_arg("PRETTY_NAME", "Bottlerocket OS")
    \o build_arg("VARIANT", "aws-dev")
    \o build_arg("VARIANT_FAMILY", "aws-dev")
    \o build_arg("VARIANT_FLAVOR", "")
    \o build_arg("VARIANT_PLATFORM", "aws")
    \o build_arg("VARIANT_RUNTIME", "dev")
    \o build_arg("VERSION_ID", "1.0.0")
    \o build_arg("GRUB_SET_PRIVATE_VAR", "1")

RepackVariantBuildArgs ==
    << "--network", "host" >>
    \o build_arg("DATA_IMAGE_PUBLISH_SIZE_GIB", "20")
    \o build_arg("DATA_IMAGE_SIZE_GIB", "1")
    \o build_arg("IMAGE_FORMAT", "raw")
    \o build_arg("IMAGE_NAME", "bottlerocket")
    \o build_arg("OS_IMAGE_PUBLISH_SIZE_GIB", "2")
    \o build_arg("OS_IMAGE_SIZE_GIB", "2")
    \o build_arg("PARTITION_PLAN", "split")
    \o build_arg("VARIANT", "aws-dev")
    \o build_arg("BUILD_ID", "abc1234")
    \o build_arg("VERSION_ID", "1.0.0")
    \o build_arg("GRUB_SET_PRIVATE_VAR", "1")

\* DockerBuild::build_args
build_args(k, nc) ==
    (CASE k = "Package" -> PackageBuildArgs
       [] k = "Kit" -> KitBuildArgs
       [] k = "Variant" -> VariantBuildArgs
       [] k = "Repack" -> RepackVariantBuildArgs)
    \o build_arg("ARCH", Arch)
    \o build_arg("GOARCH", "amd64")
    \o build_arg("SDK", Sdk)
    \o build_arg("NOCACHE", nc)
    \o build_arg("TOKEN", token(RootDir))
    \o build_arg("OUTPUT_SOCKET", output_socket(nc))
    \o build_arg("BUILDKIT_DOCKERFILE_CHECK",
                 "skip=InvalidDefaultArgInFrom,SecretsUsedInArgOrEnv")

\* `build` of lines 601-619
build_command(k, nc) ==
    LET BUILDER_UID == "1000"
    IN
    split_string("build " \o RootDir
                 \o " --target " \o target(k)
                 \o " --tag " \o tag(k)
                 \o " --network host"
                 \o " --file " \o ToolsDir \o "/build.Dockerfile"
                 \o " --no-cache-filter rpmbuild,kitbuild,repobuild,imgbuild,migrationbuild,kmodkitbuild,imgrepack"
                 \o " --build-arg BYPASS_SOCKET=" \o tag(k) \o "-bypass"
                 \o " --build-arg BUILDER_UID=" \o BUILDER_UID)
    \o build_args(k, nc)
    \o secrets_args(k)

rm_image(k) == split_string("rmi --force " \o tag(k))
rm_bypass(k) == split_string("rm --force " \o tag(k) \o "-bypass")

run_bypass(k) ==
    LET ROOT_UID == "0"
    IN
    split_string("run --name " \o tag(k) \o "-bypass --rm --init --net host --pid host"
                 \o " -u " \o ROOT_UID
                 \o " -v " \o RootDir \o ":/bypass:ro"
                 \o " -v " \o RootDir \o "/build/tools/pipesys:/usr/local/bin/pipesys:ro "
                 \o Sdk
                 \o " pipesys serve --socket " \o tag(k) \o "-bypass --client-uid "
                 \o ROOT_UID \o " --path /bypass")

-----------------------------------------------------------------------------
(* Paths. A path is the sequence of its components, relative to the        *)
(* project root that build() makes the working directory.                  *)

RECURSIVE StrLess(_, _)
\* <OsStr as Ord>::lt: byte-wise lexicographic order. `bytes` holds the
\* bytes file names are made of, in increasing order.
StrLess(a, b) ==
    LET bytes == "-.0123456789_abcdefghijklmnopqrstuvwxyz"
    IN  IF b = "" THEN FALSE
        ELSE IF a = "" THEN TRUE
        ELSE IF CharAt(a, 1) = CharAt(b, 1)
             THEN StrLess(SubSeq(a, 2, Len(a)), SubSeq(b, 2, Len(b)))
             ELSE IndexOf(bytes, CharAt(a, 1)) < IndexOf(bytes, CharAt(b, 1))

RECURSIVE PathLess(_, _)
\* <Path as Ord>::lt: the components are compared in order.
PathLess(p, q) ==
    IF q = << >> THEN FALSE
    ELSE IF p = << >> THEN TRUE
    ELSE IF p[1] = q[1] THEN PathLess(Tail(p), Tail(q))
         ELSE StrLess(p[1], q[1])

RECURSIVE SortAscending(_)
\* Vec::sort of a set of distinct paths.
SortAscending(paths) ==
    IF paths = {} THEN << >>
    ELSE LET least == CHOOSE p \in paths : \A q \in paths \ {p} : PathLess(p, q)
         IN  << least >> \o SortAscending(paths \ {least})

RECURSIVE SortDescending(_)
\* Vec::sort_by(|a, b| b.cmp(a)) of a set of distinct paths.
SortDescending(paths) ==
    IF paths = {} THEN << >>
    ELSE LET top == CHOOSE p \in paths : \A q \in paths \ {p} : PathLess(q, p)
         IN  << top >> \o SortDescending(paths \ {top})

\* Path::parent, for a path with at least one component
parent(p) == SubSeq(p, 1, Len(p) - 1)

\* Path::file_name
file_name(p) == p[Len(p)]

\* Path::starts_with
starts_with(p, base) == Len(base) <= Len(p) /\ SubSeq(p, 1, Len(base)) = base

\* Path::strip_prefix, where starts_with(p, base)
strip_prefix(p, base) == SubSeq(p, Len(base) + 1, Len(p))

\* str::ends_with
ends_with(s, suffix) ==
    Len(suffix) <= Len(s) /\ SubSeq(s, Len(s) - Len(suffix) + 1, Len(s)) = suffix

\* Path::file_stem: the name up to its last dot; a name with no dot, or whose
\* only dot is its first character, is its own stem.
file_stem(name) ==
    LET RECURSIVE LastIndexOf(_, _)
        LastIndexOf(s, c) ==
            IF s = "" THEN 0
            ELSE IF CharAt(s, Len(s)) = c THEN Len(s)
            ELSE LastIndexOf(SubSeq(s, 1, Len(s) - 1), c)
        dot == LastIndexOf(name, ".")
    IN  IF dot <= 1 THEN name ELSE SubSeq(name, 1, dot - 1)

\* The path with its extension left on.
set_extension_kept(p) == p

\* PathBuf::set_extension(""): the file name is replaced by its stem.
set_extension_empty(p) == parent(p) \o << file_stem(file_name(p)) >>

MARKER_EXTENSION == ".buildsys_marker"

\* Lines 937-938: the artifact's path with MARKER_EXTENSION pushed on it.
marker_file_of(artifact_file) ==
    parent(artifact_file) \o << file_name(artifact_file) \o MARKER_EXTENSION >>

\* Lines 941-947 and 1016-1022: output_dir with the path relative to
\* build_dir pushed on it.
output_file_of(output_dir, build_dir, p) == output_dir \o strip_prefix(p, build_dir)

-----------------------------------------------------------------------------
(* The file system: a function from the paths that exist to their nodes.   *)
(* The working directory << >> always exists. A symbolic link records what *)
(* it resolves to: "dir", "file" or "nothing". The data of a file is the   *)
(* number of the invocation whose build wrote it, 0 for an empty file.     *)

Dir == [type |-> "dir", data |-> 0, target |-> ""]
File(d) == [type |-> "file", data |-> d, target |-> ""]

\* Path::is_symlink
is_symlink(f, p) == p \in DOMAIN f /\ f[p].type = "symlink"

\* Path::is_dir, which follows a link
is_dir(f, p) ==
    \/ p = << >>
    \/ p \in DOMAIN f /\ (f[p].type = "dir" \/ (f[p].type = "symlink" /\ f[p].target = "dir"))

\* Path::is_file, which follows a link
is_file(f, p) ==
    p \in DOMAIN f /\ (f[p].type = "file" \/ (f[p].type = "symlink" /\ f[p].target = "file"))

\* The entries of the directory p
read_dir(f, p) == { q \in DOMAIN f : Len(q) = Len(p) + 1 /\ starts_with(q, p) }

\* The prefixes of p, p included, the working directory excluded
Prefixes(p) == { SubSeq(p, 1, n) : n \in 1..Len(p) }

\* A file system call comes to [ok, fs]: whether it succeeded, and the file
\* system it leaves, which is the one it found when it failed.

\* fs::create_dir_all: every missing prefix is made; a prefix that is not a
\* directory is an error.
create_dir_all(f, p) ==
    IF \A q \in Prefixes(p) : q \notin DOMAIN f \/ is_dir(f, q)
    THEN [ok |-> TRUE, fs |-> [q \in DOMAIN f \cup Prefixes(p) |-> IF q \in DOMAIN f THEN f[q] ELSE Dir]]
    ELSE [ok |-> FALSE, fs |-> f]

\* File::create: the file is made or truncated; its directory must exist
\* and the path must not be a directory.
file_create(f, p) ==
    IF is_dir(f, parent(p)) /\ ~is_dir(f, p)
    THEN [ok |-> TRUE,
          fs |-> [q \in DOMAIN f \cup {p} |->
                    IF q # p THEN f[q]
                    ELSE IF is_symlink(f, p)
                         THEN [type |-> "symlink", data |-> 0, target |-> "file"]
                         ELSE File(0)]]
    ELSE [ok |-> FALSE, fs |-> f]

\* A copy that leaves the source in place.
rename_keeping_source(f, from, to) ==
    IF from \in DOMAIN f /\ f[from].type # "dir" /\ is_dir(f, parent(to))
       /\ ~(to \in DOMAIN f /\ f[to].type = "dir")
    THEN [ok |-> TRUE,
          fs |-> [q \in DOMAIN f \cup {to} |-> IF q = to THEN f[from] ELSE f[q]]]
    ELSE [ok |-> FALSE, fs |-> f]

\* fs::rename of a file or link: the target is replaced unless it is a
\* directory; the target's directory must exist.
rename(f, from, to) ==
    IF from \in DOMAIN f /\ f[from].type # "dir" /\ is_dir(f, parent(to))
       /\ ~(to \in DOMAIN f /\ f[to].type = "dir")
    THEN [ok |-> TRUE,
          fs |-> [q \in (DOMAIN f \ {from}) \cup {to} |->
                    IF q = to THEN f[from] ELSE f[q]]]
    ELSE [ok |-> FALSE, fs |-> f]

\* A removal that takes a directory as well as a file or a link.
remove_file_or_dir(f, p) ==
    IF p \in DOMAIN f
    THEN [ok |-> TRUE, fs |-> [q \in DOMAIN f \ {p} |-> f[q]]]
    ELSE [ok |-> FALSE, fs |-> f]

\* An unlink that reports success and removes nothing.
remove_file_ignored(f, p) ==
    IF p \in DOMAIN f /\ f[p].type # "dir"
    THEN [ok |-> TRUE, fs |-> f]
    ELSE [ok |-> FALSE, fs |-> f]

\* fs::remove_file: unlink; a directory is an error.
remove_file(f, p) ==
    IF p \in DOMAIN f /\ f[p].type # "dir"
    THEN [ok |-> TRUE, fs |-> [q \in DOMAIN f \ {p} |-> f[q]]]
    ELSE [ok |-> FALSE, fs |-> f]

\* fs::remove_dir: the directory must be empty.
remove_dir(f, p) ==
    IF p \in DOMAIN f /\ f[p].type = "dir" /\ read_dir(f, p) = {}
    THEN [ok |-> TRUE, fs |-> [q \in DOMAIN f \ {p} |-> f[q]]]
    ELSE [ok |-> FALSE, fs |-> f]

-----------------------------------------------------------------------------
(* The directories of a DockerBuild *)

\* The artifacts_dirs field of the four constructors
artifacts_dirs(k) ==
    LET packages_dir == << "build", "rpms" >>
        kits_dir == << "build", "kits" >>
        image_dir == << "build", "images" >>
    IN  CASE k = "Package" -> << packages_dir \o << artifact_name(k) >>, packages_dir >>
          [] k = "Kit" -> << kits_dir \o << artifact_name(k) >> >>
          [] k = "Variant" -> << image_dir \o << Arch \o "-" \o artifact_name(k) >> >>
          [] k = "Repack" -> << image_dir \o << Arch \o "-" \o artifact_name(k) >> >>

\* The path create_marker_dir collects
marker_dir(k) ==
    LET state_dir == << "build", "state" >>
        prefix == CASE k = "Package" -> "packages"
                    [] k = "Kit" -> "kits"
                    [] k = "Variant" -> "variants"
                    [] k = "Repack" -> "variants"
    IN  state_dir \o << Arch, prefix, artifact_name(k) >>

\* The directories above the path are made, the path itself is not.
create_marker_dir_parents_only(f, k) == create_dir_all(f, parent(marker_dir(k)))

\* create_marker_dir: fs::create_dir_all(&path)
create_marker_dir(f, k) == create_dir_all(f, marker_dir(k))

\* The last of artifacts_dirs in place of the first.
copy_output_dir_last(k) == artifacts_dirs(k)[Len(artifacts_dirs(k))]

\* Line 696: the directory the outputs are copied to
copy_output_dir(k) == artifacts_dirs(k)[1]

-----------------------------------------------------------------------------
(* find_files and the two filters *)

\* The filter of copy_build_files without is_dir: no directory is entered.
has_artifacts_no_dirs(f, entry) ==
    \/ f[entry].type = "file" /\ ~ends_with(file_name(entry), MARKER_EXTENSION)
    \/ f[entry].type = "symlink"

\* copy_build_files::has_artifacts
has_artifacts(f, entry) ==
    LET is_not_marker ==
            f[entry].type = "file" /\ ~ends_with(file_name(entry), MARKER_EXTENSION)
    IN  is_dir(f, entry) \/ is_not_marker \/ f[entry].type = "symlink"

\* The filter of clean_build_files without is_dir: no directory is entered.
has_markers_no_dirs(f, entry) ==
    f[entry].type = "file" /\ ends_with(file_name(entry), MARKER_EXTENSION)

\* clean_build_files::has_markers
has_markers(f, entry) ==
    LET is_marker ==
            f[entry].type = "file" /\ ends_with(file_name(entry), MARKER_EXTENSION)
    IN  is_dir(f, entry) \/ is_marker

\* find_files: the walk starts below dir, does not follow links, descends
\* only into entries the filter lets through, and yields the files and links.
\* The filter is given as the set of the entries it lets through.
find_files(f, dir, filter) ==
    { e \in DOMAIN f :
        /\ Len(e) > Len(dir)
        /\ starts_with(e, dir)
        /\ \A n \in (Len(dir) + 1)..(Len(e) - 1) :
             f[SubSeq(e, 1, n)].type = "dir" /\ SubSeq(e, 1, n) \in filter
        /\ e \in filter
        /\ (is_file(f, e) \/ is_symlink(f, e)) }

\* clean_build_files::cleanup. Climb is its while loop: the directories
\* above the removed path are added until `top` or a directory already in
\* the set.
cleanup_path(f, path, top, dirs) ==
    IF ~(is_dir(f, path) \/ is_file(f, path)) /\ ~is_symlink(f, path)
    THEN [ok |-> TRUE, fs |-> f, dirs |-> dirs, removed |-> FALSE]
    ELSE LET r == remove_file(f, path)
         IN  IF r.ok
             THEN LET RECURSIVE Climb(_, _)
                      Climb(p, ds) ==
                          IF p = top \/ p \in ds THEN ds
                          ELSE IF p = << >> THEN ds \cup {p}
                          ELSE Climb(parent(p), ds \cup {p})
                  IN  [ok |-> TRUE, fs |-> r.fs, dirs |-> Climb(parent(path), dirs),
                       removed |-> TRUE]
             ELSE [ok |-> FALSE, fs |-> f, dirs |-> dirs, removed |-> FALSE]

\* clean_build_files::is_empty_dir
is_empty_dir(f, path) == is_dir(f, path) /\ read_dir(f, path) = {}

-----------------------------------------------------------------------------
(* The environment a behaviour lets vary. `focus` is fixed by the initial  *)
(* state: "engine" varies what the container engine answers and keeps the  *)
(* builds without output files; "files" and "ops" vary the files and keep  *)
(* one answer per kind of engine outcome; "files" also varies what         *)
(* secrets_args() finds; "edge" is "ops" on file systems where a directory *)
(* stands at the path of an output or cannot be read by the walk.          *)

\* What one execution of cmd("docker", args) may come to
OutcomesIn(fc, args) ==
    IF fc = "engine" THEN Outcomes(args)
    ELSE { o \in Outcomes(args) :
             /\ o.started
             /\ \/ o.status = 0 /\ o.stdout \in {OutBuilt, OutRemoved}
                \/ o.status = 1 /\ o.stdout \in {OutCompile, OutNoSuch} }

\* The output files of a build, relative to the directory it writes to
FooRpm == << "foo.rpm" >>
SubBarRpm == << "sub", "bar.rpm" >>

\* A build that empties the directory it writes to of everything but
\* markers before it writes.
WriteFresh(f, dir, rels, n) ==
    LET files == { dir \o rel : rel \in rels }
        made == UNION { Prefixes(p) : p \in files }
        stale == { q \in DOMAIN f :
                     /\ Len(q) > Len(dir) /\ starts_with(q, dir)
                     /\ f[q].type = "file"
                     /\ ~ends_with(file_name(q), MARKER_EXTENSION) }
    IN  [q \in (DOMAIN f \ stale) \cup made |->
            IF q \in files THEN File(n) ELSE IF q \in DOMAIN f THEN f[q] ELSE Dir]

\* The main build writes its output files, through the descriptor pipesys
\* serves, below the marker directory.
Write(f, dir, rels, n) ==
    LET files == { dir \o rel : rel \in rels }
        made == UNION { Prefixes(p) : p \in files }
    IN  [q \in DOMAIN f \cup made |->
            IF q \in files THEN File(n) ELSE IF q \in DOMAIN f THEN f[q] ELSE Dir]

EmptyFs == [q \in {} |-> Dir]

NoCall == [fn |-> "none", result |-> NoResult, before |-> EmptyFs, log |-> {}]

-----------------------------------------------------------------------------
(* copy_build_files and clean_build_files, one file system call per step.  *)
(* find_files is a lazy walk: the files come in the order the directories  *)
(* list them, which is any order here.                                     *)

\* The call frame of copy_build_files / clean_build_files
OpIdle ==
    /\ opPc = "idle"
    /\ opFn = "none"
    /\ opArgs = << >>
    /\ opTodo = {}
    /\ opFile = None
    /\ opStep = 0
    /\ clean_dirs = {}
    /\ clean_queue = << >>
    /\ opResult = NoResult
    /\ opLog = {}
    /\ rmdirs = << >>
    /\ opFs0 = EmptyFs

\* The directories of the walk whose entries cannot be read (an io::Error from
\* WalkDir): none, or one directory at or below dir. Line 1058: flat_map over
\* the Result yields the entry of an Ok and nothing for an Err.
WalkErrors(f, dir) ==
    IF focus = "edge"
    THEN { {} } \cup { {d} : d \in { p \in DOMAIN f : f[p].type = "dir" /\ starts_with(p, dir) } }
    ELSE { {} }

OpEnter(fn, build_dir, output_dirs) ==
    /\ opPc' = "files"
    /\ opFn' = fn
    /\ opArgs' = [build_dir |-> build_dir, output_dirs |-> output_dirs]
    /\ \E denied \in WalkErrors(fs, build_dir) :
         LET found == IF fn = "copy"
                      THEN find_files(fs, build_dir, { e \in DOMAIN fs : has_artifacts(fs, e) })
                      ELSE find_files(fs, build_dir, { e \in DOMAIN fs : has_markers(fs, e) })
         IN  /\ opTodo' = { e \in found : \A d \in denied : ~starts_with(e, d) }
             /\ opLog' = { [op |-> "walk_error", path |-> d] : d \in denied }
    /\ opFile' = None
    /\ opStep' = 0
    /\ clean_dirs' = {}
    /\ clean_queue' = << >>
    /\ opResult' = NoResult
    /\ rmdirs' = << >>
    /\ opFs0' = fs

\* The frame of a call that returned is dropped; `last` keeps what it did.
OpLeave ==
    /\ opPc' = "idle"
    /\ opFn' = "none"
    /\ opArgs' = << >>
    /\ opTodo' = {}
    /\ opFile' = None
    /\ opStep' = 0
    /\ clean_dirs' = {}
    /\ clean_queue' = << >>
    /\ opResult' = NoResult
    /\ opLog' = {}
    /\ rmdirs' = << >>
    /\ opFs0' = EmptyFs
    /\ last' = [fn |-> opFn, result |-> opResult, before |-> opFs0, log |-> opLog]

\* The ? on a failed call: the function returns the error where it stands.
OpFail(e) ==
    /\ opPc' = "done"
    /\ opResult' = e
    /\ UNCHANGED <<fs, opTodo, opFile, opStep, clean_dirs, clean_queue, opLog>>

\* Whether a file system call of the two functions may fail for a reason
\* outside the model (permissions, a full disk, an interrupted process).
Faults == IF focus = "ops" THEN BOOLEAN ELSE {FALSE}

\* The loop of copy_build_files without File::create(&marker_file).
CopyFileCreateNoMarker ==
    /\ opPc = "files" /\ opFn = "copy" /\ opStep = 0
    /\ \E artifact_file \in opTodo :
         /\ opTodo' = opTodo \ {artifact_file}
         /\ opFile' = Some(artifact_file)
         /\ opStep' = 1
         /\ UNCHANGED <<fs, opPc, opResult, clean_dirs, clean_queue, opLog>>
    /\ UNCHANGED <<opFn, opArgs, rmdirs, opFs0, last>>
    /\ UNCHANGED <<buildVars, auxVars, dockerVars, focus, fs0, produced>>

\* Lines 936-939: the next artifact of the walk; File::create(&marker_file)?
CopyFileCreate ==
    /\ opPc = "files" /\ opFn = "copy" /\ opStep = 0
    /\ \E artifact_file \in opTodo, fault \in Faults :
         LET marker_file == marker_file_of(artifact_file)
             r == file_create(fs, marker_file)
         IN  IF r.ok /\ ~fault
             THEN /\ fs' = r.fs
                  /\ opTodo' = opTodo \ {artifact_file}
                  /\ opFile' = Some(artifact_file)
                  /\ opStep' = 1
                  /\ opLog' = opLog \cup {[op |-> "create", path |-> marker_file]}
                  /\ UNCHANGED <<opPc, opResult, clean_dirs, clean_queue>>
             ELSE OpFail([kind |-> "FileCreate", path |-> marker_file])
    /\ UNCHANGED <<opFn, opArgs, rmdirs, opFs0, last>>
    /\ UNCHANGED <<buildVars, auxVars, dockerVars, focus, fs0, produced>>

\* Lines 941-953: output_file, its parent, fs::create_dir_all(parent_dir)?
CopyCreateDirAll ==
    /\ opPc = "files" /\ opFn = "copy" /\ opStep = 1
    /\ \E artifact_file \in opFile, fault \in Faults :
         LET output_file == output_file_of(opArgs.output_dirs[1], opArgs.build_dir, artifact_file)
             parent_dir == parent(output_file)
             r == create_dir_all(fs, parent_dir)
         IN  IF r.ok /\ ~fault
             THEN /\ fs' = r.fs
                  /\ opStep' = 2
                  /\ opLog' = IF r.fs = fs THEN opLog
                              ELSE opLog \cup {[op |-> "create_dir_all", path |-> parent_dir]}
                  /\ UNCHANGED <<opPc, opResult, opTodo, opFile, clean_dirs, clean_queue>>
             ELSE OpFail([kind |-> "DirectoryCreate", path |-> parent_dir])
    /\ UNCHANGED <<opFn, opArgs, rmdirs, opFs0, last>>
    /\ UNCHANGED <<buildVars, auxVars, dockerVars, focus, fs0, produced>>

\* Lines 955-958: fs::rename(&artifact_file, &output_file)?
CopyRename ==
    /\ opPc = "files" /\ opFn = "copy" /\ opStep = 2
    /\ \E artifact_file \in opFile, fault \in Faults :
         LET output_file == output_file_of(opArgs.output_dirs[1], opArgs.build_dir, artifact_file)
             r == rename(fs, artifact_file, output_file)
         IN  IF r.ok /\ ~fault
             THEN /\ fs' = r.fs
                  /\ opFile' = None
                  /\ opStep' = 0
                  /\ opLog' = opLog \cup {[op |-> "rename", path |-> output_file]}
                  /\ UNCHANGED <<opPc, opResult, opTodo, clean_dirs, clean_queue>>
             ELSE OpFail([kind |-> "FileRename", path |-> output_file])
    /\ UNCHANGED <<opFn, opArgs, rmdirs, opFs0, last>>
    /\ UNCHANGED <<buildVars, auxVars, dockerVars, focus, fs0, produced>>

\* Line 961: the walk is over; Ok(())
CopyDone ==
    /\ opPc = "files" /\ opFn = "copy" /\ opStep = 0
    /\ opTodo = {}
    /\ opPc' = "done"
    /\ opResult' = Ok
    /\ UNCHANGED <<fs, opFn, opArgs, opTodo, opFile, opStep, clean_dirs, clean_queue,
                   opLog, rmdirs, opFs0, last>>
    /\ UNCHANGED <<buildVars, auxVars, dockerVars, focus, fs0, produced>>

\* The loop of clean_build_files without cleanup(&output_file, ...).
CleanOutputFileSkipped ==
    /\ opPc = "files" /\ opFn = "clean"
    /\ opStep < Len(opArgs.output_dirs)
    /\ \E marker_file \in (IF opFile = None THEN opTodo ELSE opFile) :
         /\ opTodo' = opTodo \ {marker_file}
         /\ opFile' = Some(marker_file)
         /\ opStep' = opStep + 1
         /\ UNCHANGED <<fs, clean_dirs, opLog, opPc, opResult, clean_queue>>
    /\ UNCHANGED <<opFn, opArgs, rmdirs, opFs0, last>>
    /\ UNCHANGED <<buildVars, auxVars, dockerVars, focus, fs0, produced>>

\* Lines 1015-1025: for the marker in hand, or the next of the walk, and the
\* next output_dir: output_file with its extension removed;
\* cleanup(&output_file, output_dir, &mut clean_dirs)?
CleanOutputFile ==
    /\ opPc = "files" /\ opFn = "clean"
    /\ opStep < Len(opArgs.output_dirs)
    /\ \E marker_file \in (IF opFile = None THEN opTodo ELSE opFile), fault \in Faults :
         LET output_dir == opArgs.output_dirs[opStep + 1]
             output_file == set_extension_empty(
                                output_file_of(output_dir, opArgs.build_dir, marker_file))
             r == cleanup_path(fs, output_file, output_dir, clean_dirs)
         IN  IF r.ok /\ ~(fault /\ r.removed)
             THEN /\ fs' = r.fs
                  /\ clean_dirs' = r.dirs
                  /\ opTodo' = opTodo \ {marker_file}
                  /\ opFile' = Some(marker_file)
                  /\ opStep' = opStep + 1
                  /\ opLog' = IF r.removed THEN opLog \cup {[op |-> "remove_file", path |-> output_file]}
                              ELSE opLog
                  /\ UNCHANGED <<opPc, opResult, clean_queue>>
             ELSE OpFail([kind |-> "FileRemove", path |-> output_file])
    /\ UNCHANGED <<opFn, opArgs, rmdirs, opFs0, last>>
    /\ UNCHANGED <<buildVars, auxVars, dockerVars, focus, fs0, produced>>

\* Line 1026: cleanup(&marker_file, build_dir, &mut clean_dirs)?
CleanMarkerFile ==
    /\ opPc = "files" /\ opFn = "clean"
    /\ opStep = Len(opArgs.output_dirs)
    /\ \E marker_file \in (IF opFile = None THEN opTodo ELSE opFile), fault \in Faults :
         LET r == cleanup_path(fs, marker_file, opArgs.build_dir, clean_dirs)
         IN  IF r.ok /\ ~(fault /\ r.removed)
             THEN /\ fs' = r.fs
                  /\ clean_dirs' = r.dirs
                  /\ opTodo' = opTodo \ {marker_file}
                  /\ opFile' = None
                  /\ opStep' = 0
                  /\ opLog' = IF r.removed THEN opLog \cup {[op |-> "remove_file", path |-> marker_file]}
                              ELSE opLog
                  /\ UNCHANGED <<opPc, opResult, clean_queue>>
             ELSE OpFail([kind |-> "FileRemove", path |-> marker_file])
    /\ UNCHANGED <<opFn, opArgs, rmdirs, opFs0, last>>
    /\ UNCHANGED <<buildVars, auxVars, dockerVars, focus, fs0, produced>>

\* The loop over the markers left after any marker.
CleanSortDirsEarly ==
    /\ opPc = "files" /\ opFn = "clean"
    /\ opFile = None
    /\ opPc' = "dirs"
    /\ clean_queue' = SortDescending(clean_dirs)
    /\ UNCHANGED <<fs, opFn, opArgs, opTodo, opFile, opStep, clean_dirs, opResult,
                   opLog, rmdirs, opFs0, last>>
    /\ UNCHANGED <<buildVars, auxVars, dockerVars, focus, fs0, produced>>

\* Lines 1031-1032: the walk is over; the set becomes a vector sorted in
\* reverse order.
CleanSortDirs ==
    /\ opPc = "files" /\ opFn = "clean"
    /\ opFile = None /\ opTodo = {}
    /\ opPc' = "dirs"
    /\ clean_queue' = SortDescending(clean_dirs)
    /\ UNCHANGED <<fs, opFn, opArgs, opTodo, opFile, opStep, clean_dirs, opResult,
                   opLog, rmdirs, opFs0, last>>
    /\ UNCHANGED <<buildVars, auxVars, dockerVars, focus, fs0, produced>>

\* Lines 1034-1039: if is_empty_dir(&clean_dir)? { remove_dir(&clean_dir)? }
CleanDirectory ==
    /\ opPc = "dirs"
    /\ clean_queue # << >>
    /\ LET clean_dir == Head(clean_queue)
       IN  IF is_empty_dir(fs, clean_dir)
           THEN \E fault \in Faults :
                  LET r == remove_dir(fs, clean_dir)
                  IN  IF r.ok /\ ~fault
                      THEN /\ fs' = r.fs
                           /\ clean_queue' = Tail(clean_queue)
                           /\ opLog' = opLog \cup {[op |-> "remove_dir", path |-> clean_dir]}
                           /\ rmdirs' = Append(rmdirs, clean_dir)
                           /\ UNCHANGED <<opPc, opResult>>
                      ELSE /\ opPc' = "done"
                           /\ opResult' = [kind |-> "DirectoryRemove", path |-> clean_dir]
                           /\ UNCHANGED <<fs, clean_queue, opLog, rmdirs>>
           ELSE /\ clean_queue' = Tail(clean_queue)
                /\ UNCHANGED <<fs, opPc, opResult, opLog, rmdirs>>
    /\ UNCHANGED <<opFn, opArgs, opTodo, opFile, opStep, clean_dirs, opFs0, last>>
    /\ UNCHANGED <<buildVars, auxVars, dockerVars, focus, fs0, produced>>

\* Line 1041: Ok(())
CleanDone ==
    /\ opPc = "dirs"
    /\ clean_queue = << >>
    /\ opPc' = "done"
    /\ opResult' = Ok
    /\ UNCHANGED <<fs, opFn, opArgs, opTodo, opFile, opStep, clean_dirs, clean_queue,
                   opLog, rmdirs, opFs0, last>>
    /\ UNCHANGED <<buildVars, auxVars, dockerVars, focus, fs0, produced>>

-----------------------------------------------------------------------------
(* docker(args, retry) *)

NotRun == "<none>"

DockerIdle ==
    /\ dkPc = "idle"
    /\ dkArgs = << >>
    /\ dkMax = 1
    /\ dkMsgs = << >>
    /\ attempt = 1
    /\ runs = 0
    /\ dkStarted = NotRun
    /\ dkStatus = None
    /\ dkStdout = NotRun
    /\ printed = NotRun
    /\ dkResult = NoResult

\* Lines 731-738: the bound and the patterns the policy gives, attempt = 1.
DockerEnter(args, retry) ==
    /\ dkPc' = "loop"
    /\ dkArgs' = args
    /\ dkMax' = IF retry.retry = "Yes" THEN retry.attempts ELSE 1
    /\ dkMsgs' = IF retry.retry = "Yes" THEN retry.messages ELSE << >>
    /\ attempt' = 1
    /\ runs' = 0
    /\ dkStarted' = NotRun
    /\ dkStatus' = None
    /\ dkStdout' = NotRun
    /\ printed' = NotRun
    /\ dkResult' = NoResult

\* The attempt bound compared with <= : one attempt too many.
ShouldRetryOffByOne(messages, stdout, att, max_attempts) ==
    /\ \E m \in 1..Len(messages) : is_match(messages[m], stdout)
    /\ att <= max_attempts

\* Any failed exit is retried while attempts remain.
ShouldRetryAnyFailure(messages, stdout, att, max_attempts) ==
    att < max_attempts

\* The condition of the ensure! of lines 753-754.
ShouldRetry(messages, stdout, att, max_attempts) ==
    /\ \E m \in 1..Len(messages) : is_match(messages[m], stdout)
    /\ att < max_attempts

\* The error built from the first argument alone.
DockerExecutionErrorFirstArg(args) ==
    [kind |-> "DockerExecution", args |-> args[1]]

\* error::DockerExecutionSnafu { args: &args.join(" ") }
DockerExecutionError(args) ==
    [kind |-> "DockerExecution", args |-> Join(args, " ")]

\* error::CommandStartSnafu
CommandStartError == [kind |-> "CommandStart"]

\* A zero exit whose output matches a retry message goes round again.
AfterExitRetryingMatch(o, args, messages, att, max_attempts) ==
    IF ShouldRetry(messages, o.stdout, att, max_attempts)
    THEN [step |-> "again"]
    ELSE IF o.status = 0
    THEN [step |-> "return", result |-> [kind |-> "Ok", status |-> o.status, stdout |-> o.stdout]]
    ELSE [step |-> "return", result |-> DockerExecutionError(args)]

\* What docker() does with the exit of one execution (lines 747-760):
\* "return" with a result, or "again".
AfterExit(o, args, messages, att, max_attempts) ==
    IF o.status = 0
    THEN [step |-> "return", result |-> [kind |-> "Ok", status |-> o.status, stdout |-> o.stdout]]
    ELSE IF ~ShouldRetry(messages, o.stdout, att, max_attempts)
    THEN [step |-> "return", result |-> DockerExecutionError(args)]
    ELSE [step |-> "again"]

\* A process that could not be started handled like a retryable exit.
AfterRunRetryingStart(o, args, messages, att, max_attempts) ==
    IF ~o.started
    THEN IF att < max_attempts
         THEN [step |-> "again"]
         ELSE [step |-> "return", result |-> [kind |-> "CommandStart"]]
    ELSE IF o.status = 0
    THEN [step |-> "return", result |-> [kind |-> "Ok", status |-> o.status, stdout |-> o.stdout]]
    ELSE [step |-> "return", result |-> [kind |-> "DockerExecution", args |-> Join(args, " ")]]

\* What docker() does with one execution (lines 740-760): the ? of
\* .context(CommandStartSnafu) returns when the process could not be started.
AfterRun(o, args, messages, att, max_attempts) ==
    IF ~o.started
    THEN [step |-> "return", result |-> CommandStartError]
    ELSE AfterExit(o, args, messages, att, max_attempts)

\* The call sites of docker() in build(), by position.
DockerSites == {"rm_image_pre", "rm_bypass_pre", "main_build", "rm_bypass_post", "rm_image_post"}

SiteArgs(p, k, nc) ==
    CASE p \in {"rm_image_pre", "rm_image_post"} -> rm_image(k)
      [] p \in {"rm_bypass_pre", "rm_bypass_post"} -> rm_bypass(k)
      [] p = "main_build" -> build_command(k, nc)

SiteRetry(p) == IF p = "main_build" THEN BuildRetry ELSE RetryNo

\* build() reaches a call of docker().
DockerStart ==
    /\ pc \in DockerSites
    /\ dkPc = "idle"
    /\ DockerEnter(SiteArgs(pc, kind, nocache), SiteRetry(pc))
    /\ trace' = Append(trace, "docker " \o SiteArgs(pc, kind, nocache)[1])
    /\ UNCHANGED <<invocation, kind, nocache, secrets, pc, result, buildResult, versionOut>>
    /\ UNCHANGED auxVars
    /\ UNCHANGED filesVars
    /\ UNCHANGED opVars

\* One turn of the loop of docker(): the process is executed once, its
\* output (when it ran) is printed, and the call returns or goes round again.
DockerAttempt ==
    /\ dkPc = "loop"
    /\ \E o \in OutcomesIn(focus, dkArgs) :
         LET next == AfterRun(o, dkArgs, dkMsgs, attempt, dkMax)
         IN  /\ runs' = runs + 1
             /\ dkStarted' = IF o.started THEN "yes" ELSE "no"
             /\ IF o.started
                THEN /\ dkStatus' = Some(o.status)
                     /\ dkStdout' = o.stdout
                     /\ printed' = o.stdout
                ELSE UNCHANGED <<dkStatus, dkStdout, printed>>
             /\ IF next.step = "return"
                THEN /\ dkResult' = next.result
                     /\ dkPc' = "done"
                     /\ UNCHANGED attempt
                ELSE /\ attempt' = attempt + 1
                     /\ UNCHANGED <<dkResult, dkPc>>
             /\ IF o.started /\ dkArgs[1] = "build"
                THEN \E files \in (IF focus = "engine" THEN { {} }
                                   ELSE { {}, {FooRpm}, {SubBarRpm} }) :
                       /\ fs' = Write(fs, marker_dir(kind), files, invocation)
                       /\ produced' = produced \cup files
                       /\ last' = IF files = {} THEN last ELSE NoCall
                ELSE UNCHANGED <<fs, produced, last>>
    /\ UNCHANGED <<dkArgs, dkMax, dkMsgs>>
    /\ UNCHANGED <<invocation, kind, nocache, secrets, pc, result, trace, buildResult, versionOut>>
    /\ UNCHANGED auxVars
    /\ UNCHANGED <<focus, fs0>>
    /\ UNCHANGED <<opPc, opFn, opArgs, opTodo, opFile, opStep, clean_dirs, clean_queue,
                   opResult, opLog, rmdirs, opFs0>>

\* The frame of a docker() call that returned is dropped.
DockerLeave ==
    /\ dkPc' = "idle"
    /\ dkArgs' = << >>
    /\ dkMax' = 1
    /\ dkMsgs' = << >>
    /\ attempt' = 1
    /\ runs' = 0
    /\ dkStarted' = NotRun
    /\ dkStatus' = None
    /\ dkStdout' = NotRun
    /\ printed' = NotRun
    /\ dkResult' = NoResult

-----------------------------------------------------------------------------
(* DockerBuild::build() *)

Return(r) ==
    /\ pc' = "returned"
    /\ result' = r

\* The four constructors: new_package and new_kit read no secret; new_variant
\* (line 513) and repack_variant (line 574) hold secrets_args()?, so they
\* return its error.
new_result(k, env) ==
    IF k \in {"Variant", "Repack"} THEN secrets_result(env) ELSE [kind |-> "Ok"]

Fresh(n) ==
    /\ invocation = n
    /\ kind \in Kinds
    /\ nocache \in (IF focus = "engine" THEN Nocaches ELSE {"17"})
    /\ secrets \in SecretsEnvs(focus)
    /\ IF new_result(kind, secrets).kind = "Ok"
       THEN pc = "check_version" /\ result = NoResult
       ELSE pc = "construct_failed" /\ result = new_result(kind, secrets)
    /\ trace = << >>
    /\ buildResult = NoResult
    /\ versionOut = NotRun
    /\ runtime = "none"
    /\ pipesys = "none"
    /\ bypass = "none"
    /\ DockerIdle
    /\ fs0 = fs
    /\ produced = {}
    /\ OpIdle
    /\ last = NoCall

\* The marker directories of earlier builds of every target exist.
Init ==
    /\ focus = "engine"
    /\ fs = [q \in UNION { Prefixes(marker_dir(k)) : k \in Kinds } |-> Dir]
    /\ Fresh(1)


\* Line 579: check_docker_version()?
CheckVersion ==
    /\ pc = "check_version"
    /\ \E probe \in (IF focus = "engine" THEN VersionOutputs \cup {NotStarted}
                      ELSE {"27.1.4\n"}) :
         LET checked == check_docker_version(probe)
         IN  /\ versionOut' = probe
             /\ trace' = Append(trace, "docker version")
             /\ IF checked.kind = "Ok"
                THEN pc' = "chdir" /\ UNCHANGED result
                ELSE Return(checked)
    /\ UNCHANGED <<invocation, kind, nocache, secrets, buildResult>>
    /\ UNCHANGED auxVars
    /\ UNCHANGED dockerVars
    /\ UNCHANGED filesVars
    /\ UNCHANGED opVars

\* Lines 581-583: env::set_current_dir(&self.root_dir)
ChangeDirectory ==
    /\ pc = "chdir"
    /\ trace' = Append(trace, "set_current_dir")
    /\ \E ok \in BOOLEAN :
         IF ok THEN pc' = "marker_dir" /\ UNCHANGED result
         ELSE Return([kind |-> "DirectoryChange", path |-> RootDir])
    /\ UNCHANGED <<invocation, kind, nocache, secrets, buildResult, versionOut>>
    /\ UNCHANGED auxVars
    /\ UNCHANGED dockerVars
    /\ UNCHANGED filesVars
    /\ UNCHANGED opVars

\* Lines 586-591: create_marker_dir(...)?
CreateMarkerDir ==
    /\ pc = "marker_dir"
    /\ trace' = Append(trace, "create_marker_dir")
    /\ \E fault \in BOOLEAN :
         LET r == create_marker_dir(fs, kind)
         IN  IF r.ok /\ ~fault
             THEN fs' = r.fs /\ pc' = "clean" /\ UNCHANGED result
             ELSE UNCHANGED fs /\ Return([kind |-> "DirectoryCreate"])
    /\ UNCHANGED <<invocation, kind, nocache, secrets, buildResult, versionOut>>
    /\ UNCHANGED <<focus, fs0, produced>>
    /\ UNCHANGED auxVars
    /\ UNCHANGED dockerVars
    /\ UNCHANGED opVars

\* build() without the call of clean_build_files.
CleanBuildFilesSkipped ==
    /\ pc = "clean"
    /\ opPc = "idle"
    /\ pc' = "rm_image_pre"
    /\ UNCHANGED <<invocation, kind, nocache, secrets, result, trace, buildResult, versionOut>>
    /\ UNCHANGED filesVars
    /\ UNCHANGED auxVars
    /\ UNCHANGED dockerVars
    /\ UNCHANGED opVars

\* Lines 594-599: clean_build_files under OutputCleanup::BeforeBuild.
CleanBuildFiles ==
    /\ pc = "clean"
    /\ opPc = "idle"
    /\ IF cleanup(kind) = "BeforeBuild"
       THEN /\ trace' = Append(trace, "clean_build_files")
            /\ OpEnter("clean", marker_dir(kind), artifacts_dirs(kind))
            /\ UNCHANGED <<pc, last>>
       ELSE /\ pc' = "rm_image_pre"
            /\ UNCHANGED trace
            /\ UNCHANGED opVars
    /\ UNCHANGED <<invocation, kind, nocache, secrets, result, buildResult, versionOut>>
    /\ UNCHANGED filesVars
    /\ UNCHANGED auxVars
    /\ UNCHANGED dockerVars

\* The ? of line 596 on what clean_build_files returned.
CleanBuildFilesReturns ==
    /\ pc = "clean"
    /\ opPc = "done"
    /\ IF opResult.kind = "Ok"
       THEN pc' = "rm_image_pre" /\ UNCHANGED result
       ELSE Return(opResult)
    /\ OpLeave
    /\ UNCHANGED <<invocation, kind, nocache, secrets, trace, buildResult, versionOut>>
    /\ UNCHANGED filesVars
    /\ UNCHANGED auxVars
    /\ UNCHANGED dockerVars

\* Line 646: let _ = docker(&rm_image, Retry::No);
RemovePreviousImage ==
    /\ pc = "rm_image_pre"
    /\ dkPc = "done"
    /\ pc' = "rm_bypass_pre"
    /\ DockerLeave
    /\ UNCHANGED <<invocation, kind, nocache, secrets, result, trace, buildResult, versionOut>>
    /\ UNCHANGED auxVars
    /\ UNCHANGED filesVars
    /\ UNCHANGED opVars

\* Line 649: let _ = docker(&rm_bypass, Retry::No);
RemovePreviousBypass ==
    /\ pc = "rm_bypass_pre"
    /\ dkPc = "done"
    /\ pc' = "runtime"
    /\ DockerLeave
    /\ UNCHANGED <<invocation, kind, nocache, secrets, result, trace, buildResult, versionOut>>
    /\ UNCHANGED auxVars
    /\ UNCHANGED filesVars
    /\ UNCHANGED opVars

\* Line 651: tokio::runtime::Runtime::new()?
NewRuntime ==
    /\ pc = "runtime"
    /\ \E ok \in BOOLEAN :
         IF ok
         THEN /\ runtime' = "up"
              /\ trace' = Append(trace, "Runtime::new")
              /\ pc' = "spawn_pipesys"
              /\ UNCHANGED result
         ELSE /\ Return([kind |-> "AsyncRuntime"])
              /\ UNCHANGED <<runtime, trace>>
    /\ UNCHANGED <<invocation, kind, nocache, secrets, buildResult, versionOut, pipesys, bypass>>
    /\ UNCHANGED dockerVars
    /\ UNCHANGED filesVars
    /\ UNCHANGED opVars

\* Lines 654-660: the task serving the marker directory on output_socket.
SpawnPipesys ==
    /\ pc = "spawn_pipesys"
    /\ pipesys' = "serving"
    /\ trace' = Append(trace, "spawn pipesys")
    /\ pc' = "spawn_bypass"
    /\ UNCHANGED <<invocation, kind, nocache, secrets, result, buildResult, versionOut, runtime, bypass>>
    /\ UNCHANGED dockerVars
    /\ UNCHANGED filesVars
    /\ UNCHANGED opVars

\* Lines 664-666: the task running docker(&run_bypass, Retry::No).
SpawnBypass ==
    /\ pc = "spawn_bypass"
    /\ bypass' = "spawned"
    /\ trace' = Append(trace, "spawn bypass")
    /\ pc' = "main_build"
    /\ UNCHANGED <<invocation, kind, nocache, secrets, result, buildResult, versionOut, runtime, pipesys>>
    /\ UNCHANGED dockerVars
    /\ UNCHANGED filesVars
    /\ UNCHANGED opVars

\* The ? applied to the main build's docker() call itself.
MainBuildReturnsEarly ==
    /\ pc = "main_build"
    /\ dkPc = "done"
    /\ buildResult' = dkResult
    /\ IF dkResult.kind = "Ok"
       THEN pc' = "rm_bypass_post" /\ UNCHANGED result
       ELSE Return(dkResult)
    /\ DockerLeave
    /\ UNCHANGED <<invocation, kind, nocache, secrets, trace, versionOut>>
    /\ UNCHANGED auxVars
    /\ UNCHANGED filesVars
    /\ UNCHANGED opVars

\* Lines 670-681: let build_result = docker(&build, Retry::Yes {...});
MainBuildReturns ==
    /\ pc = "main_build"
    /\ dkPc = "done"
    /\ buildResult' = dkResult
    /\ pc' = "rm_bypass_post"
    /\ DockerLeave
    /\ UNCHANGED <<invocation, kind, nocache, secrets, result, trace, versionOut>>
    /\ UNCHANGED auxVars
    /\ UNCHANGED filesVars
    /\ UNCHANGED opVars

\* Line 684: let _ = docker(&rm_bypass, Retry::No);
RemoveBypass ==
    /\ pc = "rm_bypass_post"
    /\ dkPc = "done"
    /\ pc' = "shutdown"
    /\ DockerLeave
    /\ UNCHANGED <<invocation, kind, nocache, secrets, result, trace, buildResult, versionOut>>
    /\ UNCHANGED auxVars
    /\ UNCHANGED filesVars
    /\ UNCHANGED opVars

\* Line 687: runtime.shutdown_background(). A task waiting at an await is
\* dropped; the blocking docker() of the bypass task is not interrupted.
ShutdownRuntime ==
    /\ pc = "shutdown"
    /\ runtime' = "down"
    /\ pipesys' = IF pipesys = "serving" THEN "stopped" ELSE pipesys
    /\ bypass' = IF bypass = "spawned" THEN "stopped" ELSE bypass
    /\ trace' = Append(trace, "shutdown_background")
    /\ pc' = "check_build"
    /\ UNCHANGED <<invocation, kind, nocache, secrets, result, buildResult, versionOut>>
    /\ UNCHANGED dockerVars
    /\ UNCHANGED filesVars
    /\ UNCHANGED opVars

\* The result of the main build dropped instead of checked.
CheckBuildResultIgnored ==
    /\ pc = "check_build"
    /\ pc' = "rm_image_post"
    /\ UNCHANGED <<invocation, kind, nocache, secrets, result, trace, buildResult, versionOut>>
    /\ UNCHANGED auxVars
    /\ UNCHANGED dockerVars
    /\ UNCHANGED filesVars
    /\ UNCHANGED opVars

\* The image removed before the result of the main build is checked.
CheckBuildResultAfterImageRemoval ==
    /\ pc = "check_build"
    /\ IF buildResult.kind = "Ok"
       THEN pc' = "rm_image_post" /\ UNCHANGED <<result, trace>>
       ELSE Return(buildResult) /\ trace' = Append(trace, "docker rmi")
    /\ UNCHANGED <<invocation, kind, nocache, secrets, buildResult, versionOut>>
    /\ UNCHANGED auxVars
    /\ UNCHANGED dockerVars
    /\ UNCHANGED filesVars
    /\ UNCHANGED opVars

\* Line 690: build_result?;
CheckBuildResult ==
    /\ pc = "check_build"
    /\ IF buildResult.kind = "Ok"
       THEN pc' = "rm_image_post" /\ UNCHANGED result
       ELSE Return(buildResult)
    /\ UNCHANGED <<invocation, kind, nocache, secrets, trace, buildResult, versionOut>>
    /\ UNCHANGED auxVars
    /\ UNCHANGED dockerVars
    /\ UNCHANGED filesVars
    /\ UNCHANGED opVars

\* The removal of the image after the build with let _ = in place of ?.
RemoveImageIgnored ==
    /\ pc = "rm_image_post"
    /\ dkPc = "done"
    /\ pc' = "copy"
    /\ DockerLeave
    /\ UNCHANGED <<invocation, kind, nocache, secrets, result, trace, buildResult, versionOut>>
    /\ UNCHANGED auxVars
    /\ UNCHANGED filesVars
    /\ UNCHANGED opVars

\* Line 693: docker(&rm_image, Retry::No)?;
RemoveImage ==
    /\ pc = "rm_image_post"
    /\ dkPc = "done"
    /\ IF dkResult.kind = "Ok"
       THEN pc' = "copy" /\ UNCHANGED result
       ELSE Return(dkResult)
    /\ DockerLeave
    /\ UNCHANGED <<invocation, kind, nocache, secrets, trace, buildResult, versionOut>>
    /\ UNCHANGED auxVars
    /\ UNCHANGED filesVars
    /\ UNCHANGED opVars

\* Line 696: copy_build_files(&marker_dir, &self.artifacts_dirs[0]) is called.
CopyBuildFiles ==
    /\ pc = "copy"
    /\ opPc = "idle"
    /\ trace' = Append(trace, "copy_build_files")
    /\ OpEnter("copy", marker_dir(kind), << copy_output_dir(kind) >>)
    /\ UNCHANGED <<invocation, kind, nocache, secrets, pc, result, buildResult, versionOut, last>>
    /\ UNCHANGED filesVars
    /\ UNCHANGED auxVars
    /\ UNCHANGED dockerVars

\* Lines 696-698: the ? on what copy_build_files returned; Ok(())
CopyBuildFilesReturns ==
    /\ pc = "copy"
    /\ opPc = "done"
    /\ Return(opResult)
    /\ OpLeave
    /\ UNCHANGED <<invocation, kind, nocache, secrets, trace, buildResult, versionOut>>
    /\ UNCHANGED filesVars
    /\ UNCHANGED auxVars
    /\ UNCHANGED dockerVars

-----------------------------------------------------------------------------
(* The two tasks on the runtime *)

\* The failure of the pipesys task returned by build().
PipesysFailsReturned ==
    /\ pipesys = "serving"
    /\ pc # "returned"
    /\ pipesys' = "failed"
    /\ Return([kind |-> "Pipesys"])
    /\ UNCHANGED <<invocation, kind, nocache, secrets, trace, buildResult, versionOut, runtime, bypass>>
    /\ UNCHANGED dockerVars
    /\ UNCHANGED filesVars
    /\ UNCHANGED opVars

\* PipesysServer::serve() ends with an error; nobody reads the JoinHandle.
PipesysFails ==
    /\ pipesys = "serving"
    /\ pipesys' = "failed"
    /\ UNCHANGED <<invocation, kind, nocache, secrets, pc, result, trace, buildResult, versionOut,
                   runtime, bypass>>
    /\ UNCHANGED dockerVars
    /\ UNCHANGED filesVars
    /\ UNCHANGED opVars

\* The bypass task is polled: docker(&run_bypass, Retry::No) executes the
\* process once; a process that could not be started ends the task.
BypassRuns ==
    /\ bypass = "spawned"
    /\ \E started \in BOOLEAN : bypass' = IF started THEN "running" ELSE "exited"
    /\ UNCHANGED <<invocation, kind, nocache, secrets, pc, result, trace, buildResult, versionOut,
                   runtime, pipesys>>
    /\ UNCHANGED dockerVars
    /\ UNCHANGED filesVars
    /\ UNCHANGED opVars

\* The bypass container exits, with any status; let _ drops the Result.
BypassExits ==
    /\ bypass = "running"
    /\ bypass' = "exited"
    /\ UNCHANGED <<invocation, kind, nocache, secrets, pc, result, trace, buildResult, versionOut,
                   runtime, pipesys>>
    /\ UNCHANGED dockerVars
    /\ UNCHANGED filesVars
    /\ UNCHANGED opVars

-----------------------------------------------------------------------------

\* The caller constructs the next DockerBuild and calls build() on it.
NewInvocation ==
    /\ pc \in {"returned", "construct_failed"}
    /\ invocation < MaxInvocations
    /\ invocation' = invocation + 1
    /\ kind' \in Kinds
    /\ nocache' \in (IF focus = "engine" THEN Nocaches ELSE {"17"})
    /\ secrets' \in SecretsEnvs(focus)
    /\ IF new_result(kind', secrets').kind = "Ok"
       THEN pc' = "check_version" /\ result' = NoResult
       ELSE pc' = "construct_failed" /\ result' = new_result(kind', secrets')
    /\ trace' = << >>
    /\ buildResult' = NoResult
    /\ versionOut' = NotRun
    /\ runtime' = "none"
    /\ pipesys' = "none"
    /\ bypass' = "none"
    /\ UNCHANGED dockerVars
    /\ fs0' = fs
    /\ produced' = {}
    /\ last' = NoCall
    /\ UNCHANGED <<focus, fs>>
    /\ UNCHANGED <<opPc, opFn, opArgs, opTodo, opFile, opStep, clean_dirs, clean_queue,
                   opResult, opLog, rmdirs, opFs0>>

Next ==
    \/ CheckVersion
    \/ ChangeDirectory
    \/ CreateMarkerDir
    \/ CleanBuildFiles
    \/ DockerStart
    \/ DockerAttempt
    \/ RemovePreviousImage
    \/ RemovePreviousBypass
    \/ NewRuntime
    \/ SpawnPipesys
    \/ SpawnBypass
    \/ MainBuildReturns
    \/ RemoveBypass
    \/ ShutdownRuntime
    \/ CheckBuildResult
    \/ RemoveImage
    \/ CopyBuildFiles
    \/ CopyBuildFilesReturns
    \/ CleanBuildFilesReturns
    \/ CopyDone
    \/ CleanSortDirs
    \/ CleanDone
    \/ PipesysFails
    \/ BypassRuns
    \/ BypassExits
    \/ NewInvocation

Spec == Init /\ [][Next]_vars

-----------------------------------------------------------------------------
(* build() with builds that write output files. The two tasks only hold    *)
(* the descriptor and the bypass container; the writes they carry are part *)
(* of the step of the main build, so their own steps are left out here.    *)

InitFiles ==
    /\ focus = "files"
    /\ fs = EmptyFs
    /\ Fresh(1)

NextFiles ==
    \/ CheckVersion
    \/ ChangeDirectory
    \/ CreateMarkerDir
    \/ CleanBuildFiles
    \/ CleanBuildFilesReturns
    \/ DockerStart
    \/ DockerAttempt
    \/ RemovePreviousImage
    \/ RemovePreviousBypass
    \/ NewRuntime
    \/ SpawnPipesys
    \/ SpawnBypass
    \/ MainBuildReturns
    \/ RemoveBypass
    \/ ShutdownRuntime
    \/ CheckBuildResult
    \/ RemoveImage
    \/ CopyBuildFiles
    \/ CopyBuildFilesReturns
    \/ CopyFileCreate
    \/ CopyCreateDirAll
    \/ CopyRename
    \/ CopyDone
    \/ CleanOutputFile
    \/ CleanMarkerFile
    \/ CleanSortDirs
    \/ CleanDirectory
    \/ CleanDone
    \/ NewInvocation

SpecFiles == InitFiles /\ [][NextFiles]_vars

-----------------------------------------------------------------------------
(* copy_build_files and clean_build_files called in any order on the       *)
(* directories of a DockerBuild, from the file systems builds can leave.   *)

\* How many calls a behaviour holds.
MaxCalls == 2

DeepFile == << "a", "b", "c", "file" >>

\* What a build left of each output file: nothing; the file in the marker
\* directory ("built"); its marker and the file in the first output
\* directory ("tracked"); its marker and the file in the last one ("legacy").
\* Under the "edge" focus the files are foo.rpm and a foo.rpm below a
\* directory named as the artifact, and a directory may stand where the file
\* of a marker is expected ("blocked").
Layouts(k, fc) ==
    IF fc = "ops"
    THEN { l \in [{FooRpm, DeepFile} -> {"absent", "built", "tracked", "legacy"}] :
             \A r \in DOMAIN l : l[r] = "legacy" => (r = FooRpm /\ Len(artifacts_dirs(k)) > 1) }
    ELSE { l \in [{FooRpm, << artifact_name(k) >> \o FooRpm}
                    -> {"absent", "built", "tracked", "legacy", "blocked"}] :
             /\ l[FooRpm] # "legacy"
             /\ l[<< artifact_name(k) >> \o FooRpm] \in {"absent", "built", "legacy"}
             /\ l[<< artifact_name(k) >> \o FooRpm] = "legacy" =>
                   (Len(artifacts_dirs(k)) > 1 /\ l[FooRpm] # "blocked") }

\* The file system of a layout, with or without a file nobody tracks in
\* the first output directory and a link in the marker directory.
LayoutFs(k, l, keep, link) ==
    LET build_dir == marker_dir(k)
        first == artifacts_dirs(k)[1]
        legacy == artifacts_dirs(k)[Len(artifacts_dirs(k))]
        nodes ==
            { [path |-> build_dir \o r, node |-> File(1)] : r \in {x \in DOMAIN l : l[x] = "built"} }
            \cup { [path |-> marker_file_of(build_dir \o r), node |-> File(0)] :
                     r \in {x \in DOMAIN l : l[x] \in {"tracked", "legacy", "blocked"}} }
            \cup { [path |-> first \o r, node |-> Dir] : r \in {x \in DOMAIN l : l[x] = "blocked"} }
            \cup { [path |-> first \o r, node |-> File(1)] : r \in {x \in DOMAIN l : l[x] = "tracked"} }
            \cup { [path |-> legacy \o r, node |-> File(1)] : r \in {x \in DOMAIN l : l[x] = "legacy"} }
            \cup (IF keep THEN { [path |-> first \o << "a", "b", "keep" >>, node |-> File(1)] }
                  ELSE {})
            \cup (IF link = "" THEN {}
                  ELSE { [path |-> build_dir \o << "link" >>,
                          node |-> [type |-> "symlink", data |-> 0, target |-> link]] })
        paths == { n.path : n \in nodes }
        made == Prefixes(build_dir) \cup UNION { Prefixes(parent(p)) : p \in paths }
    IN  [q \in made \cup paths |->
            IF q \in paths THEN (CHOOSE n \in nodes : n.path = q).node ELSE Dir]

InitOps(fc) ==
    /\ focus = fc
    /\ invocation = 1
    /\ kind \in {"Package", "Variant"}
    /\ nocache = "17"
    /\ secrets \in SecretsEnvs(fc)
    /\ pc = "ops"
    /\ result = NoResult
    /\ trace = << >>
    /\ buildResult = NoResult
    /\ versionOut = NotRun
    /\ runtime = "none"
    /\ pipesys = "none"
    /\ bypass = "none"
    /\ DockerIdle
    /\ \E l \in Layouts(kind, fc), keep \in BOOLEAN, link \in {"", "dir"} :
         /\ fc = "edge" => (~keep /\ link = "")
         /\ fs = LayoutFs(kind, l, keep, link)
    /\ fs0 = fs
    /\ produced = {}
    /\ OpIdle
    /\ last = NoCall

\* copy_build_files(&marker_dir, &self.artifacts_dirs[0]) is called.
CallCopyBuildFiles ==
    /\ pc = "ops"
    /\ opPc = "idle"
    /\ Len(trace) < MaxCalls
    /\ trace' = Append(trace, "copy_build_files")
    /\ OpEnter("copy", marker_dir(kind), << copy_output_dir(kind) >>)
    /\ UNCHANGED <<invocation, kind, nocache, secrets, pc, result, buildResult, versionOut, last>>
    /\ UNCHANGED filesVars
    /\ UNCHANGED auxVars
    /\ UNCHANGED dockerVars

\* clean_build_files(&marker_dir, &self.artifacts_dirs) is called.
CallCleanBuildFiles ==
    /\ pc = "ops"
    /\ opPc = "idle"
    /\ Len(trace) < MaxCalls
    /\ trace' = Append(trace, "clean_build_files")
    /\ OpEnter("clean", marker_dir(kind), artifacts_dirs(kind))
    /\ UNCHANGED <<invocation, kind, nocache, secrets, pc, result, buildResult, versionOut, last>>
    /\ UNCHANGED filesVars
    /\ UNCHANGED auxVars
    /\ UNCHANGED dockerVars

\* The call returns to its caller.
CallReturns ==
    /\ pc = "ops"
    /\ opPc = "done"
    /\ OpLeave
    /\ UNCHANGED buildVars
    /\ UNCHANGED filesVars
    /\ UNCHANGED auxVars
    /\ UNCHANGED dockerVars

NextOps ==
    \/ CallCopyBuildFiles
    \/ CallCleanBuildFiles
    \/ CallReturns
    \/ CopyFileCreate
    \/ CopyCreateDirAll
    \/ CopyRename
    \/ CopyDone
    \/ CleanOutputFile
    \/ CleanMarkerFile
    \/ CleanSortDirs
    \/ CleanDirectory
    \/ CleanDone

SpecOps == InitOps("ops") /\ [][NextOps]_vars

\* The same calls on the file systems of the "edge" focus, where a directory
\* of the walk may fail to be read.
SpecEdge == InitOps("edge") /\ [][NextOps]_vars

-----------------------------------------------------------------------------
(* Properties of docker() *)

\* The last execution of the process ran and exited with a failure status,
\* leaving the output out.
FailedWith(out) ==
    /\ dkStarted = "yes"
    /\ dkStatus # Some(0)
    /\ dkStdout = out

MatchesAny(messages, out) == \E m \in 1..Len(messages) : is_match(messages[m], out)

\* C1: a docker() call executes the process at most max_attempts times, where
\* max_attempts is 10 for the main build (Retry::Yes) and 1 for every
\* Retry::No call, and it has returned once that many executions were made.
C1_AttemptsBounded ==
    dkPc # "idle" =>
        /\ dkMax = IF pc = "main_build" THEN DOCKER_BUILD_MAX_ATTEMPTS ELSE 1
        /\ runs <= dkMax
        /\ runs = dkMax => dkPc = "done"

\* The main build used up all ten attempts and returned the error.
C1_Witness ==
    /\ pc = "main_build"
    /\ dkPc = "done"
    /\ runs = DOCKER_BUILD_MAX_ATTEMPTS
    /\ dkResult.kind = "DockerExecution"

\* C2: a failed exit whose output matches none of the retry patterns makes
\* docker() return the error without a further execution: the call is about
\* to execute again only after a matching output, and a first attempt with
\* non-matching output leaves exactly one execution.
C2_NoRetryWithoutMatch ==
    /\ (dkPc = "loop" /\ runs > 0) => MatchesAny(dkMsgs, dkStdout)
    /\ \A out \in {OutCompile, OutEofInLine, OutRemoved, OutNoSuch} :
         (dkPc # "idle" /\ FailedWith(out)) =>
             /\ dkPc = "done"
             /\ dkResult.kind = "DockerExecution"
             /\ attempt = 1 => runs = 1

\* The first attempt of the main build failed with a compiler error, nine
\* attempts still unused.
C2_Witness ==
    /\ pc = "main_build"
    /\ dkPc = "done"
    /\ FailedWith(OutCompile)
    /\ runs = 1
    /\ dkMax = DOCKER_BUILD_MAX_ATTEMPTS
    /\ dkResult.kind = "DockerExecution"

\* C3 as stated: with the main build's patterns and attempts remaining, a
\* failed exit with the output "...\nerror: failed to get dead record\nmore
\* text\n" is followed by another attempt.
C3_DeadRecordLineRetried ==
    (pc = "main_build" /\ FailedWith(OutDeadRecordLine) /\ runs < dkMax) => dkPc = "loop"

\* C3 amended: the dead-record pattern matches only the whole BuildKit
\* message (failed to solve with frontend dockerfile.v0: ... failed to build
\* LLB: failed to get dead record), anywhere in the output; a failed exit of
\* the main build with that message and attempts remaining is followed by
\* another attempt, while the output with only the line "error: failed to
\* get dead record" matches no pattern and makes docker() return the error.
C3_DeadRecordRetry ==
    pc = "main_build" =>
        /\ (FailedWith(OutDeadRecord) /\ runs < dkMax) => (dkPc = "loop" /\ attempt = runs + 1)
        /\ FailedWith(OutDeadRecordLine) => (dkPc = "done" /\ dkResult.kind = "DockerExecution")

\* The main build failed with the whole dead-record message and goes round.
C3_Witness ==
    /\ pc = "main_build"
    /\ dkPc = "loop"
    /\ FailedWith(OutDeadRecord)
    /\ runs = 1
    /\ attempt = 2

\* C4: when the process cannot be started docker() returns the start failure
\* at once, also under Retry::Yes with attempts remaining.
C4_StartFailureNotRetried ==
    dkStarted = "no" => (dkPc = "done" /\ dkResult = CommandStartError)

\* The third attempt of the main build could not start the process.
C4_Witness ==
    /\ pc = "main_build"
    /\ dkStarted = "no"
    /\ runs = 3
    /\ runs < dkMax
    /\ dkPc = "done"

-----------------------------------------------------------------------------
(* Properties of the version gate and of build() *)

\* Precedence of semantic versions against a version without prerelease
\* tag: major, minor, patch, and a prerelease comes before its release.
VersionAtLeast(v, major, minor, patch) ==
    IF v.major # major THEN v.major > major
    ELSE IF v.minor # minor THEN v.minor > minor
    ELSE IF v.patch # patch THEN v.patch > patch
    ELSE v.pre = ""

Probed == versionOut \notin {NotRun, NotStarted}

\* C6: the version gate accepts a parsed engine version iff it is at least
\* 23.0.0; 22.9.9, 20.10.27 and 18.0.9 are rejected, 23.0.0, 25.0.5 and
\* 27.1.4 are accepted.
C6_GateIffAtLeast23 ==
    LET v == VersionParse(Trim(versionOut))
        accepted == ~(pc = "returned" /\ result.kind = "DockerVersionRequirement")
    IN  /\ (Probed /\ v.ok) => (accepted <=> VersionAtLeast(v, 23, 0, 0))
        /\ versionOut \in {"22.9.9\n", "20.10.27\n", "18.0.9\n"} => ~accepted
        /\ versionOut \in {"23.0.0\n", "25.0.5\n", "27.1.4\n"} => accepted

Occurs(e) == \E i \in 1..Len(trace) : trace[i] = e

Before(a, b) == \E i, j \in 1..Len(trace) : i < j /\ trace[i] = a /\ trace[j] = b

BelowMinimum == {"22.9.9\n", "20.10.27\n", "18.0.9\n"}
Unparsable ==
    {"23.1\n", "023.0.0\n", "",
     "Cannot connect to the Docker daemon at unix:///var/run/docker.sock.\n"}

\* C7: when the version check fails (the version is unparsable or below the
\* minimum) build() has returned the error with the version probe as its
\* only operation: no marker directory, no cleaning, no image or container
\* removal, no runtime, no task, no main build.
C7_VersionFailureBeforeAnyEffect ==
    (\/ versionOut \in BelowMinimum \cup Unparsable
     \/ result.kind \in {"VersionParse", "DockerVersionRequirement"}) =>
        /\ pc = "returned"
        /\ result.kind \in {"VersionParse", "DockerVersionRequirement"}
        /\ trace = << "docker version" >>
        /\ runtime = "none" /\ pipesys = "none" /\ bypass = "none"
        /\ dkPc = "idle" /\ runs = 0
        /\ buildResult = NoResult

\* build() returned because Docker 22.9.9 is below the minimum.
C7_Witness ==
    /\ pc = "returned"
    /\ versionOut = "22.9.9\n"
    /\ result.kind = "DockerVersionRequirement"
    /\ result.installed_version.major = 22

MainBuildFailed == buildResult.kind \notin {"none", "Ok"}

\* C8: when the main build was started and build() has returned, whatever
\* the main build came to, the removal of the bypass container was issued
\* after the main build and the runtime was shut down after that.
C8_TeardownOnEveryPath ==
    (pc = "returned" /\ Occurs("docker build")) =>
        /\ buildResult.kind # "none"
        /\ runtime = "down"
        /\ pipesys # "serving"
        /\ \E i, j, k \in 1..Len(trace) :
             /\ i < j /\ j < k
             /\ trace[i] = "docker build"
             /\ trace[j] = "docker rm"
             /\ trace[k] = "shutdown_background"

\* build() returned after a main build whose process could not be started.
C8_Witness ==
    /\ pc = "returned"
    /\ buildResult = CommandStartError
    /\ result = CommandStartError
    /\ Occurs("docker build")
    /\ runtime = "down"

\* C9: when the main build fails build() returns that failure and
\* copy_build_files is never run in that invocation.
C9_NoPromotionAfterFailure ==
    MainBuildFailed =>
        /\ ~Occurs("copy_build_files")
        /\ pc \in {"rm_bypass_post", "shutdown", "check_build", "returned"}
        /\ pc = "returned" => result = buildResult

\* build() returned the DockerExecution error of the main build.
C9_Witness ==
    /\ pc = "returned"
    /\ buildResult.kind = "DockerExecution"
    /\ result = buildResult
    /\ ~Occurs("copy_build_files")

-----------------------------------------------------------------------------
(* Properties of build() on the file system *)

\* The files and links below dir
FilesBelow(f, dir) ==
    { p \in DOMAIN f : f[p].type # "dir" /\ Len(p) > Len(dir) /\ starts_with(p, dir) }

\* The markers below dir: the regular files named <something>.buildsys_marker
Markers(f, dir) ==
    { p \in FilesBelow(f, dir) :
        f[p].type = "file" /\ ends_with(file_name(p), ".buildsys_marker") }

\* The files that are not markers, and the links, below dir
NonMarkers(f, dir) == FilesBelow(f, dir) \ Markers(f, dir)

\* The path a marker stands for: the marker's path without .buildsys_marker
Unmarked(marker_file) ==
    parent(marker_file)
    \o << SubSeq(file_name(marker_file), 1,
                 Len(file_name(marker_file)) - Len(".buildsys_marker")) >>

\* The files that are new or differ from what this invocation started with
ChangedFiles ==
    { p \in DOMAIN fs : fs[p].type # "dir" /\ (p \notin DOMAIN fs0 \/ fs0[p] # fs[p]) }

\* C11: when build() promotes, the image of the main build was removed
\* between the main build and the promotion; every file that is new since the
\* invocation began lies in the marker directory or in the first configured
\* output directory, no other output directory has received one; and after a
\* successful invocation every file the build wrote is in the first output
\* directory at its relative path.
C11_PromotionIntoFirstDirectoryOnly ==
    /\ Occurs("copy_build_files") =>
         \E i, j, k \in 1..Len(trace) :
            /\ i < j /\ j < k
            /\ trace[i] = "docker build"
            /\ trace[j] = "docker rmi"
            /\ trace[k] = "copy_build_files"
    /\ \A p \in ChangedFiles :
         starts_with(p, marker_dir(kind)) \/ starts_with(p, artifacts_dirs(kind)[1])
    /\ (pc = "returned" /\ result = Ok) =>
         \A r \in produced :
            /\ (artifacts_dirs(kind)[1] \o r) \in DOMAIN fs
            /\ fs[artifacts_dirs(kind)[1] \o r] = File(invocation)

C11_Witness ==
    /\ pc = "returned"
    /\ result = Ok
    /\ kind = "Package"
    /\ Len(artifacts_dirs(kind)) = 2
    /\ FooRpm \in produced
    /\ (artifacts_dirs(kind)[2] \o FooRpm) \notin DOMAIN fs

\* C12 as stated: after a successful main build, build() promotes and does
\* not return the error of a docker() call, whatever the removals came to.
C12_CleanupFailureNeverAnError ==
    (pc = "returned" /\ buildResult.kind = "Ok") =>
        /\ Occurs("copy_build_files")
        /\ result.kind \notin {"DockerExecution", "CommandStart"}

\* C12: a failed removal of the stale image, of the stale helper container
\* or of the helper container after the main build is dropped and build()
\* goes on; a failed removal of the image after a successful main build is
\* returned by build(), which then does not promote.
C12_OnlyPostBuildImageRemovalCanFail ==
    [][ (dkPc = "done" /\ dkResult.kind # "Ok" /\ pc' # pc) =>
          /\ pc \in {"rm_image_pre", "rm_bypass_pre", "rm_bypass_post"} =>
                (pc' # "returned" /\ result' = result)
          /\ pc = "rm_image_post" =>
                /\ pc' = "returned"
                /\ result' = dkResult
                /\ trace' = trace
                /\ ~Occurs("copy_build_files") ]_vars

C12_Witness ==
    /\ pc = "returned"
    /\ buildResult.kind = "Ok"
    /\ result.kind = "DockerExecution"
    /\ result.args = Join(rm_image(kind), " ")
    /\ ~Occurs("copy_build_files")

\* C13: a step in which the pipesys task fails or the bypass task ends
\* changes neither the position nor any result of build() and of its docker()
\* call, at whatever point of build() it is taken; and when the main build
\* failed, build() returns the main build's error.
C13_TasksDoNotDecideResult ==
    /\ [](pc = "returned" /\ MainBuildFailed => result = buildResult)
    /\ [][ ((pipesys' = "failed" /\ pipesys # "failed")
              \/ (bypass' = "exited" /\ bypass # "exited")) =>
            /\ pc' = pc
            /\ result' = result
            /\ buildResult' = buildResult
            /\ dkPc' = dkPc
            /\ dkResult' = dkResult ]_vars

C13_Witness ==
    /\ pc = "returned"
    /\ result = Ok
    /\ pipesys = "failed"
    /\ bypass = "exited"

\* The markers in the marker directory when this invocation began
MarkersAtStart == Markers(fs0, marker_dir(kind))

\* The output file a marker stands for, in the output directory d
TrackedIn(d, marker_file) ==
    d \o strip_prefix(Unmarked(marker_file), marker_dir(kind))

\* C14: for Package, Kit and Variant builds clean_build_files is called after
\* create_marker_dir and before the first docker() call and the main build,
\* with the marker directory and all of artifacts_dirs, and when it has
\* returned no output directory holds a file a marker stood for; a Repack
\* build never calls it, and when its main build starts everything that
\* existed when the invocation began, markers and tracked outputs included,
\* is still there unchanged.
C14_CleanBeforeBuildExceptRepack ==
    /\ (kind # "Repack" /\ Occurs("docker rmi")) =>
          /\ Before("create_marker_dir", "clean_build_files")
          /\ Before("clean_build_files", "docker rmi")
    /\ (kind # "Repack" /\ Occurs("docker build")) =>
          Before("clean_build_files", "docker build")
    /\ (pc = "clean" /\ opFn = "clean") =>
          opArgs = [build_dir |-> marker_dir(kind), output_dirs |-> artifacts_dirs(kind)]
    /\ (kind # "Repack" /\ pc = "rm_image_pre") =>
          \A m \in MarkersAtStart :
             /\ m \notin DOMAIN fs
             /\ \A i \in 1..Len(artifacts_dirs(kind)) :
                   TrackedIn(artifacts_dirs(kind)[i], m) \notin DOMAIN fs
    /\ kind = "Repack" =>
          /\ ~Occurs("clean_build_files")
          /\ (pc = "main_build" /\ runs = 0) =>
                \A p \in DOMAIN fs0 : p \in DOMAIN fs /\ fs[p] = fs0[p]

C14_Witness ==
    /\ kind = "Repack"
    /\ pc = "main_build"
    /\ dkPc = "loop"
    /\ runs = 0
    /\ \E m \in MarkersAtStart : TrackedIn(artifacts_dirs(kind)[1], m) \in DOMAIN fs

\* The relative paths of the files the markers present at the start stand for
TrackedAtStart ==
    { strip_prefix(Unmarked(m), marker_dir(kind)) : m \in MarkersAtStart }

\* C15: when an invocation that cleans before the build starts with a marker
\* directory holding only markers (what a successful invocation leaves) and
\* returns Ok, the first output directory holds every file the build wrote,
\* as written by this build, no output directory holds a file that was
\* tracked at the start and not written again, and the marker directory
\* holds exactly the markers of the files the build wrote and nothing else.
C15_SecondBuildReplacesFirst ==
    (/\ invocation > 1
     /\ pc = "returned"
     /\ result = Ok
     /\ kind # "Repack"
     /\ NonMarkers(fs0, marker_dir(kind)) = {}) =>
        /\ \A r \in produced :
              /\ (artifacts_dirs(kind)[1] \o r) \in DOMAIN fs
              /\ fs[artifacts_dirs(kind)[1] \o r] = File(invocation)
        /\ \A r \in TrackedAtStart \ produced :
              \A i \in 1..Len(artifacts_dirs(kind)) :
                 (artifacts_dirs(kind)[i] \o r) \notin DOMAIN fs
        /\ Markers(fs, marker_dir(kind))
              = { marker_dir(kind) \o SubSeq(r, 1, Len(r) - 1)
                    \o << r[Len(r)] \o ".buildsys_marker" >> : r \in produced }
        /\ NonMarkers(fs, marker_dir(kind)) = {}

C15_Witness ==
    /\ invocation = 2
    /\ pc = "returned"
    /\ result = Ok
    /\ kind = "Package"
    /\ NonMarkers(fs0, marker_dir(kind)) = {}
    /\ produced = {SubBarRpm}
    /\ FooRpm \in TrackedAtStart
    /\ (artifacts_dirs(kind)[1] \o FooRpm) \in DOMAIN fs0

-----------------------------------------------------------------------------
(* Properties of copy_build_files and clean_build_files *)

\* What copy_build_files had to promote when the call began
ArtifactsAtCall == NonMarkers(opFs0, opArgs.build_dir)

\* C16: when copy_build_files has returned Ok, every file that is not a
\* marker and every link that was below build_dir when the call began is at
\* the same relative path below output_dir, its marker is below build_dir,
\* and it is no longer below build_dir.
C16_PromotedWithMarker ==
    (opFn = "copy" /\ opPc = "done" /\ opResult = Ok) =>
        \A a \in ArtifactsAtCall :
           LET out == opArgs.output_dirs[1] \o strip_prefix(a, opArgs.build_dir)
               marker == parent(a) \o << file_name(a) \o ".buildsys_marker" >>
           IN  /\ out \in DOMAIN fs
               /\ fs[out] = opFs0[a]
               /\ marker \in Markers(fs, opArgs.build_dir)
               /\ a \notin DOMAIN fs

C16_Witness ==
    /\ opFn = "copy" /\ opPc = "done" /\ opResult = Ok
    /\ (opArgs.build_dir \o FooRpm) \in ArtifactsAtCall
    /\ (opArgs.build_dir \o DeepFile) \in ArtifactsAtCall
    /\ (opArgs.build_dir \o << "link" >>) \in ArtifactsAtCall

\* The files a call has moved into output_dir, by its log
Moved(log) == { e.path : e \in { x \in log : x.op = "rename" } }

\* The marker, below build_dir, of a file below output_dir
MarkerOfOutput(build_dir, output_dir, out) ==
    build_dir \o strip_prefix(parent(out), output_dir)
    \o << file_name(out) \o ".buildsys_marker" >>

\* C17: at every point of copy_build_files, whether it is still running, has
\* returned Ok or has stopped on an error, the marker of every file the call
\* has moved into output_dir exists below build_dir; and when a
\* clean_build_files that follows has returned Ok, none of the files the
\* copy had moved is left.
C17_MovedFilesHaveMarkers ==
    /\ opFn = "copy" =>
          \A out \in Moved(opLog) :
             MarkerOfOutput(opArgs.build_dir, opArgs.output_dirs[1], out) \in DOMAIN fs
    /\ (opFn = "clean" /\ opPc = "done" /\ opResult = Ok /\ last.fn = "copy") =>
          \A out \in Moved(last.log) : out \notin DOMAIN fs

C17_Witness ==
    /\ opFn = "copy" /\ opPc = "done"
    /\ opResult.kind = "FileRename"
    /\ Moved(opLog) # {}
    /\ opFile # None

\* C18: when clean_build_files is called right after a clean_build_files
\* that returned Ok, the second call changes nothing in the file system.
C18_SecondCleanChangesNothing ==
    (opFn = "clean" /\ last.fn = "clean" /\ last.result = Ok) =>
        /\ opLog = {}
        /\ fs = opFs0

C18_Witness ==
    /\ opFn = "clean" /\ opPc = "done" /\ opResult = Ok
    /\ last.fn = "clean" /\ last.result = Ok
    /\ \E e \in last.log : e.op = "remove_file"
    /\ \E e \in last.log : e.op = "remove_dir"

\* A clean_build_files that returned Ok right after a copy_build_files that
\* returned Ok
CleanAfterCopy ==
    /\ opFn = "clean" /\ opPc = "done" /\ opResult = Ok
    /\ last.fn = "copy" /\ last.result = Ok

\* C19 as stated: after the copy and the clean the file system is what it
\* was before the copy.
C19_RoundTripRestores == CleanAfterCopy => fs = last.before

\* C19: after copy_build_files and then clean_build_files, both Ok, the
\* promoted files are deleted and not restored: build_dir holds no file, no
\* marker and no link; nothing stands where a file was promoted to; no file
\* exists that was not there before the copy; and the files outside build_dir
\* that were there before the copy, and that neither a promoted file replaced
\* nor a marker stood for, are unchanged.
C19_RoundTripDeletesPromoted ==
    CleanAfterCopy =>
        LET before == last.before
            build_dir == opArgs.build_dir
            promoted == { opArgs.output_dirs[1] \o strip_prefix(a, build_dir) :
                            a \in NonMarkers(before, build_dir) }
            tracked == { opArgs.output_dirs[i] \o strip_prefix(Unmarked(m), build_dir) :
                            i \in 1..Len(opArgs.output_dirs),
                            m \in Markers(opFs0, build_dir) }
        IN  /\ FilesBelow(fs, build_dir) = {}
            /\ \A p \in promoted : p \notin DOMAIN fs
            /\ \A p \in FilesBelow(fs, << >>) : p \in DOMAIN before /\ fs[p] = before[p]
            /\ \A p \in FilesBelow(before, << >>) \ (promoted \cup tracked) :
                  starts_with(p, build_dir) \/ (p \in DOMAIN fs /\ fs[p] = before[p])

C19_Witness ==
    /\ CleanAfterCopy
    /\ (opArgs.build_dir \o DeepFile) \in DOMAIN last.before
    /\ (opArgs.output_dirs[1] \o << "a", "b", "keep" >>) \in DOMAIN fs
    /\ (opArgs.output_dirs[1] \o DeepFile) \notin DOMAIN fs

\* C20: the candidate directories are visited so that no directory comes
\* after one that contains it; a directory is removed only when it is a
\* candidate and is empty at that moment, so the removals come deepest first;
\* and when clean_build_files has returned Ok no candidate is left empty and
\* a candidate that is left still has everything above it.
C20_DirectoriesDeepestFirst ==
    /\ [](opFn = "clean" =>
            /\ \A i, j \in 1..Len(clean_queue) :
                 i < j => ~starts_with(clean_queue[j], clean_queue[i])
            /\ \A i, j \in 1..Len(rmdirs) : i < j => PathLess(rmdirs[j], rmdirs[i])
            /\ \A i \in 1..Len(rmdirs) : rmdirs[i] \in clean_dirs
            /\ (opPc = "done" /\ opResult = Ok) =>
                 \A d \in clean_dirs :
                    /\ ~is_empty_dir(fs, d)
                    /\ d \in DOMAIN fs => \A q \in Prefixes(d) : q \in DOMAIN fs)
    /\ [][rmdirs' # rmdirs /\ rmdirs' # << >> =>
            /\ is_empty_dir(fs, rmdirs'[Len(rmdirs')])
            /\ rmdirs'[Len(rmdirs')] = Head(clean_queue)]_vars

C20_Witness ==
    /\ opFn = "clean" /\ opPc = "done" /\ opResult = Ok
    /\ \E i \in 1..Len(rmdirs) :
          /\ i + 2 <= Len(rmdirs)
          /\ rmdirs[i] = opArgs.output_dirs[1] \o << "a", "b", "c" >>
          /\ rmdirs[i + 1] = opArgs.output_dirs[1] \o << "a", "b" >>
          /\ rmdirs[i + 2] = opArgs.output_dirs[1] \o << "a" >>

-----------------------------------------------------------------------------
(* Further properties of docker() *)

\* C28: the loop of docker() never stands after an execution that exited
\* with status zero; right after such an execution the call is done, its
\* result is Ok with the output of that execution, and the executions made
\* are those the attempt counter had reached, with none after it, whether or
\* not the output matches a retry message and attempts remain.
C28_ZeroExitReturnsAtOnce ==
    (dkPc \in {"loop", "done"} /\ dkStarted = "yes" /\ dkStatus = Some(0)) =>
        /\ dkPc = "done"
        /\ dkResult = [kind |-> "Ok", status |-> 0, stdout |-> dkStdout]
        /\ runs = attempt

C28_Witness ==
    /\ dkPc = "done"
    /\ dkStarted = "yes"
    /\ dkStatus = Some(0)
    /\ dkResult.kind = "Ok"
    /\ MatchesAny(dkMsgs, dkStdout)
    /\ attempt < dkMax

-----------------------------------------------------------------------------
(* Further properties of build() and of the two file functions *)

\* C24: the path of create_marker_dir is state_dir/arch/<prefix>/name, with
\* prefix packages, kits, variants and variants for Package, Kit, Variant
\* and Repack; when the call succeeds the path and every directory above it
\* are directories, whatever existed before is as it was, nothing else is
\* new, and when the path was a directory already the file system is
\* unchanged.
C24_MarkerDirCreatedOnce ==
    [][ (pc = "marker_dir" /\ pc' = "clean") =>
          LET prefix == CASE kind = "Package" -> "packages"
                          [] kind = "Kit" -> "kits"
                          [] kind \in {"Variant", "Repack"} -> "variants"
              path == << "build", "state", Arch, prefix, artifact_name(kind) >>
              above == { SubSeq(path, 1, n) : n \in 1..Len(path) }
          IN  /\ marker_dir(kind) = path
              /\ DOMAIN fs' = DOMAIN fs \cup above
              /\ \A p \in above : fs'[p].type = "dir"
              /\ \A p \in DOMAIN fs : fs'[p] = fs[p]
              /\ (path \in DOMAIN fs /\ fs[path].type = "dir") => fs' = fs ]_vars

C24_Witness ==
    /\ invocation = 2
    /\ kind = "Repack"
    /\ pc = "clean"
    /\ opPc = "idle"
    /\ trace[Len(trace)] = "create_marker_dir"
    /\ marker_dir("Variant") \in DOMAIN fs0
    /\ fs = fs0

\* C21: when clean_build_files has returned Ok, no marker is left below
\* build_dir, and for every marker that was there when the call began, the
\* path it stands for exists below none of the output directories.
C21_NoMarkerNoTrackedOutputLeft ==
    (opFn = "clean" /\ opPc = "done" /\ opResult = Ok) =>
        /\ Markers(fs, opArgs.build_dir) = {}
        /\ \A marker \in Markers(opFs0, opArgs.build_dir) :
              \A i \in 1..Len(opArgs.output_dirs) :
                 (opArgs.output_dirs[i] \o strip_prefix(Unmarked(marker), opArgs.build_dir))
                     \notin DOMAIN fs

C21_Witness ==
    /\ opFn = "clean" /\ opPc = "done" /\ opResult = Ok
    /\ Len(opArgs.output_dirs) = 2
    /\ (opArgs.output_dirs[2] \o FooRpm) \in DOMAIN opFs0
    /\ (opArgs.output_dirs[1] \o DeepFile) \in DOMAIN opFs0
    /\ Cardinality(Markers(opFs0, opArgs.build_dir)) = 2

\* The call in hand met no error of the walk
WalkComplete == \A e \in opLog : e.op # "walk_error"

\* The markers, and the paths they stand for under the output directories,
\* where a directory stood at that path when clean_build_files was called
BlockedAtCall ==
    { b \in [marker : Markers(opFs0, opArgs.build_dir),
             path : { p \in DOMAIN opFs0 : opFs0[p].type = "dir" }] :
        \E i \in 1..Len(opArgs.output_dirs) :
           b.path = opArgs.output_dirs[i] \o strip_prefix(Unmarked(b.marker), opArgs.build_dir) }

\* C29 as stated: a directory at the path of a marker is removed and
\* clean_build_files returns Ok.
C29_DirectoryRemoved ==
    (opFn = "clean" /\ opPc = "done" /\ WalkComplete) =>
        \A b \in BlockedAtCall : opResult = Ok /\ b.path \notin DOMAIN fs

\* C29: when a directory stands at the path of a marker under an output
\* directory, clean_build_files stops with the FileRemove error of that path;
\* the directory and the marker are left where they were.
C29_DirectoryStopsClean ==
    (opFn = "clean" /\ opPc = "done" /\ WalkComplete /\ BlockedAtCall # {}) =>
        /\ opResult.kind = "FileRemove"
        /\ \E b \in BlockedAtCall : opResult.path = b.path
        /\ \A b \in BlockedAtCall :
              /\ b.path \in DOMAIN fs /\ fs[b.path].type = "dir"
              /\ b.marker \in DOMAIN fs

C29_Witness ==
    /\ opFn = "clean" /\ opPc = "done" /\ WalkComplete
    /\ BlockedAtCall # {}
    /\ opResult.kind = "FileRemove"
    /\ \E e \in opLog : e.op = "remove_file"

\* C30: while clean_build_files runs and when it is done, build_dir and
\* every output directory that existed when it was called still exist.
C30_RootsNeverRemoved ==
    opFn = "clean" =>
        \A d \in {opArgs.build_dir} \cup { opArgs.output_dirs[i] : i \in 1..Len(opArgs.output_dirs) } :
           d \in DOMAIN opFs0 => d \in DOMAIN fs

\* C26: a call of copy_build_files or clean_build_files in which a
\* directory of the walk could not be read does not return Ok.
C26_WalkErrorReturned ==
    (opFn \in {"copy", "clean"} /\ opPc = "done" /\ ~WalkComplete) => opResult # Ok

\* The relative paths of the files builds produce and promote
TrackedPaths == {FooRpm, DeepFile, << "link" >>}

\* The marker of relative path r exists below the marker directory
HasMarker(f, r) == marker_file_of(marker_dir(kind) \o r) \in DOMAIN f

\* The file of relative path r exists below one of the output directories
HasOutput(f, r) ==
    \E i \in 1..Len(artifacts_dirs(kind)) : (artifacts_dirs(kind)[i] \o r) \in DOMAIN f

\* C22 as stated: between calls, stopped on an error or not, the marker of a
\* path exists exactly when its file exists below an output directory.
C22_MarkerIffPromoted ==
    opPc = "idle" => \A r \in TrackedPaths : HasMarker(fs, r) <=> HasOutput(fs, r)

\* C22: at every point of every call, a promoted file below an output
\* directory has its marker; and a call that returns Ok from a file system
\* where every marker had its file leaves every marker with its file.
C22_PromotedHaveMarkers ==
    /\ \A r \in TrackedPaths : HasOutput(fs, r) => HasMarker(fs, r)
    /\ (opPc = "done" /\ opResult = Ok
          /\ \A r \in TrackedPaths : HasMarker(opFs0, r) => HasOutput(opFs0, r))
       => \A r \in TrackedPaths : HasMarker(fs, r) => HasOutput(fs, r)

C22_Witness ==
    /\ opPc = "idle"
    /\ Len(trace) = 2
    /\ last.result.kind \in {"DirectoryCreate", "FileRename", "FileRemove"}
    /\ \E r \in TrackedPaths : HasMarker(fs, r) /\ ~HasOutput(fs, r)
    /\ \E r \in TrackedPaths : HasMarker(fs, r) /\ HasOutput(fs, r)

\* C23 as stated: when build() has returned, with Ok or with an error, every
\* file below the marker directory is a marker.
C23_OnlyMarkersAfterBuild ==
    pc = "returned" => NonMarkers(fs, marker_dir(kind)) = {}

\* C23: when build() has returned Ok, every file below the marker directory
\* is a marker; when it has returned an error, every other file below the
\* marker directory was there when build() was called or was written by the
\* main build of this call.
C23_OnlyMarkersAfterSuccess ==
    pc = "returned" =>
        /\ result = Ok => NonMarkers(fs, marker_dir(kind)) = {}
        /\ result # Ok =>
              NonMarkers(fs, marker_dir(kind)) \subseteq
                  NonMarkers(fs0, marker_dir(kind))
                  \cup { marker_dir(kind) \o r : r \in produced }

C23_Witness ==
    /\ invocation = 2
    /\ pc = "returned"
    /\ result = Ok
    /\ (marker_dir(kind) \o FooRpm) \in NonMarkers(fs0, marker_dir(kind))
    /\ produced = {SubBarRpm}
    /\ Markers(fs, marker_dir(kind)) # {}

-----------------------------------------------------------------------------
(* Further properties of the names of an invocation *)

\* C25 as stated: an invocation and the one after it share neither the
\* image tag, nor the name of the bypass container, nor the output socket.
C25_NamesNeverShared ==
    [][ invocation' = invocation + 1 =>
          /\ tag(kind)' # tag(kind)
          /\ (tag(kind) \o "-bypass")' # (tag(kind) \o "-bypass")
          /\ output_socket(nocache)' # output_socket(nocache) ]_vars

\* C25: from one invocation to the next, the image tag and the name of the
\* bypass container and socket are the same exactly when the target is the
\* same, whatever the random value; the output socket is the same exactly
\* when the random value is; and each name ends with or contains the token
\* of the project path.
C25_OnlyOutputSocketIsRandom ==
    [][ invocation' = invocation + 1 =>
          /\ (tag(kind)' = tag(kind)) <=> (kind' = kind)
          /\ ((tag(kind) \o "-bypass")' = (tag(kind) \o "-bypass")) <=> (kind' = kind)
          /\ (output_socket(nocache)' = output_socket(nocache)) <=> (nocache' = nocache)
          /\ ends_with(tag(kind)', "-" \o token(RootDir))
          /\ starts_with(output_socket(nocache)', "buildsys-output-" \o token(RootDir) \o "-") ]_vars

C25_Witness ==
    /\ invocation = 2
    /\ pc = "main_build"
    /\ dkPc = "loop"
    /\ dkArgs = build_command(kind, nocache)
    /\ \E i \in 1..Len(dkArgs) : dkArgs[i] = "OUTPUT_SOCKET=" \o output_socket(nocache)
    /\ \E i \in 1..Len(dkArgs) : dkArgs[i] = tag(kind)
    /\ nocache = "340282366920938463463374607431768211455"

-----------------------------------------------------------------------------
(* Further properties of the constructors *)

\* C27: for a Variant or Repack target, when the CA bundle or the root.json
\* variable names a path that does not exist, or one of the three variables
\* secrets_args() reads is unset, the constructor has returned an error and
\* build() is not run: no operation is issued, docker() is not called, the
\* file system is as it was (no marker directory made, nothing cleaned).
C27_BadSecretsNoBuild ==
    (/\ kind \in {"Variant", "Repack"}
     /\ pc # "ops"
     /\ \/ secrets.ca_bundle \in {"missing", "unset"}
        \/ secrets.root_json \in {"missing", "unset"}
        \/ secrets.sbkeys = "unset")
    => /\ pc = "construct_failed"
       /\ result.kind \in {"BadCaBundle", "BadRootJson", "Environment"}
       /\ trace = << >>
       /\ dkPc = "idle" /\ runs = 0
       /\ opPc = "idle"
       /\ fs = fs0

C27_Witness ==
    /\ kind = "Variant"
    /\ secrets.ca_bundle = "missing"
    /\ pc = "construct_failed"
    /\ result.kind = "BadCaBundle"
    /\ invocation = 2
    /\ marker_dir(kind) \notin DOMAIN fs
    /\ \E p \in DOMAIN fs : TRUE

-----------------------------------------------------------------------------
(* What clean_build_files leaves alone, and build() after build()          *)

\* The paths below the output directories that a marker, present when
\* clean_build_files was called, stands for
OutputsOfMarkers ==
    { set_extension_empty(output_file_of(opArgs.output_dirs[i], opArgs.build_dir, m)) :
        i \in 1..Len(opArgs.output_dirs), m \in Markers(opFs0, opArgs.build_dir) }

\* The paths the call in hand has removed with remove_file
RemovedFiles == { e.path : e \in { x \in opLog : x.op = "remove_file" } }

\* C31: while clean_build_files runs and when it is done, every file below
\* an output directory that no marker stands for, every file or link below
\* build_dir that is not a marker, and every directory that is not above a
\* path the call removed, is as it was when the call began.
C31_CleanFrame ==
    opFn = "clean" =>
        /\ \A i \in 1..Len(opArgs.output_dirs) :
              \A p \in FilesBelow(opFs0, opArgs.output_dirs[i]) \ OutputsOfMarkers :
                 p \in DOMAIN fs /\ fs[p] = opFs0[p]
        /\ \A p \in NonMarkers(opFs0, opArgs.build_dir) :
              p \in DOMAIN fs /\ fs[p] = opFs0[p]
        /\ \A d \in { q \in DOMAIN opFs0 : opFs0[q].type = "dir" } :
              (\A r \in RemovedFiles : ~(Len(d) < Len(r) /\ starts_with(r, d)))
                  => d \in DOMAIN fs

\* C32: when a Package, Kit or Variant build has returned the failure of
\* its main build, no marker that was in the marker directory when the
\* invocation began is left, and no output directory holds the file such a
\* marker stood for.
C32_FailedBuildLeavesOutputsCleaned ==
    (pc = "returned" /\ kind # "Repack" /\ MainBuildFailed) =>
        /\ result = buildResult
        /\ \A m \in MarkersAtStart :
              /\ m \notin DOMAIN fs
              /\ \A i \in 1..Len(artifacts_dirs(kind)) :
                    TrackedIn(artifacts_dirs(kind)[i], m) \notin DOMAIN fs

C32_Witness ==
    /\ invocation = 2
    /\ pc = "returned"
    /\ kind = "Package"
    /\ MainBuildFailed
    /\ result.kind = "DockerExecution"
    /\ TrackedAtStart = {SubBarRpm}
    /\ \A r \in TrackedAtStart : (artifacts_dirs(kind)[1] \o r) \in DOMAIN fs0
    /\ produced # {}

\* The files and links that are not markers in the marker directory when
\* this invocation began: what earlier invocations that failed left there
LeftAtStart == NonMarkers(fs0, marker_dir(kind))

====
